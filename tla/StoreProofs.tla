---------------------------- MODULE StoreProofs ----------------------------
(***************************************************************************)
(* Proofs about the manifest store (ManifestStore), for every number of    *)
(* processes and every set of manifests, and about the calibration         *)
(* machines (Commission), for every recipe and every manual option.        *)
(*                                                                         *)
(* Store: every value the current entry may have after a power loss is at  *)
(* or above every checkpoint that is or may still be published             *)
(* (NothingBelow), because a save installs over a value that is itself one *)
(* of them; and two values of one revision never meet (Coherent), because  *)
(* the backup is synced before the rename.                                 *)
(*                                                                         *)
(* Commissioning: what a phase has found, it hands to the next             *)
(* (StopsHandOver), so the candidate at the end is of two stops that lie   *)
(* inside the envelope and away from where each approach began.            *)
(***************************************************************************)
EXTENDS ManifestStore, Commission, TLAPS

InTransaction ==
    {"check", "temp", "backup", "prior_sync", "install", "verify", "commit", "rollback",
     "rollback_sync", "resync", "promote", "promote_check", "promote_sync"}

\* Whoever is in a transaction holds the directory lock.
LockHeld == \A p \in Proc : step[p] \in InTransaction => lock = p

\* What processes see is one of the values a power loss may leave.
LiveOnDisk == \A s \in Slot : live[s] \in disk[s]

\* The stream has begun: whatever is lost, the current entry is not empty.
Begun == NoManifest \notin disk["current"]

\* Until then nobody has anything to trust.
BeforeFirst ==
    ~Begun => /\ ext = NoManifest /\ disk["previous"] = {NoManifest}
              /\ \A p \in Proc : /\ auth[p].trust = NoManifest /\ req[p].ck = NoManifest
                                 /\ req[p].res # "OK"

\* Manifests that a power loss may leave side by side differ in revision.
Coherent ==
    Begun => \A v, w \in disk["current"] \cup disk["previous"] : v.rev = w.rev => v = w

\* p's save or recovery has succeeded and its caller may publish it.
Pending(p) == step[p] = "returned" /\ req[p].res = "OK" /\ req[p].op # "load"

AtLeast(v, ck) == ck # NoManifest => satisfies_floor(v, ck)

\* Nothing the current entry may hold is below a checkpoint that is published or
\* may still be.
NothingBelow ==
    \A v \in disk["current"] :
        /\ AtLeast(v, ext)
        /\ \A p \in Proc : Pending(p) => req[p].man # NoManifest /\ AtLeast(v, req[p].man)

\* Recovery runs alone, with the external checkpoint.
RecoveryAlone ==
    \A p \in Proc : Recovering(p) =>
        req[p].ck = ext /\ \A q \in Proc : q # p => step[q] = "idle"

\* Saves: what the process knows of the directory at each step.
SaveKnows(p) ==
    /\ step[p] # "idle" /\ req[p].op = "save" => req[p].man # NoManifest
    /\ step[p] \in InTransaction /\ req[p].op = "save" => req[p].from \in req[p].fromDisk
    /\ /\ step[p] \in {"check", "resync", "temp", "backup", "prior_sync", "install"}
       /\ req[p].op = "save"
       => live["current"] = req[p].from /\ disk["current"] \subseteq req[p].fromDisk
    /\ step[p] \in {"temp", "backup", "prior_sync", "install", "verify", "commit", "rollback"}
       => /\ req[p].op = "save" /\ req[p].ck = req[p].from
          /\ req[p].man.rev > req[p].ck.rev /\ req[p].ck \in disk["current"]
    /\ step[p] = "backup" => req[p].ck # NoManifest
    /\ step[p] \in {"prior_sync", "install", "verify", "commit", "rollback"}
         /\ req[p].ck # NoManifest => live["previous"] = req[p].ck
    /\ step[p] = "install" /\ req[p].ck # NoManifest =>
         disk["current"] = {req[p].ck} /\ disk["previous"] = {req[p].ck}
    /\ step[p] = "rollback_sync" =>
         req[p].op = "save" /\ live["current"] = req[p].from

\* Loads and recoveries, and the manifest a call is about to return.
ReadKnows(p) ==
    /\ step[p] \in InTransaction \cup {"called"} => req[p].res = "none"
    /\ step[p] \in InTransaction /\ req[p].op # "save" => req[p].ck # NoManifest
    /\ step[p] \in {"resync", "verify", "commit", "promote_check", "promote_sync"} =>
         live["current"] = req[p].man /\ req[p].man # NoManifest
    /\ step[p] = "promote" =>
         /\ req[p].man = live["previous"] /\ req[p].man # NoManifest
         /\ AtLeast(req[p].man, ext)
    /\ step[p] = "resync" => req[p].op # "load"
    /\ step[p] \in {"promote", "promote_check", "promote_sync"} => req[p].op = "recover"

StoreInv ==
    /\ StoreTypeOK /\ LockHeld /\ LiveOnDisk /\ BeforeFirst /\ Coherent /\ NothingBelow
    /\ RecoveryAlone /\ \A p \in Proc : SaveKnows(p) /\ ReadKnows(p)

-----------------------------------------------------------------------------
(* Types.                                                                  *)

Operations == [op: Ops, ck: Entry, seen: Entry, man: Entry, res: Results, from: Entry,
               fromDisk: SUBSET Entry]
Authorities == [open: BOOLEAN, poisoned: BOOLEAN, trust: Entry]

\* The revision of an entry is a number, and zero only for the empty one.
LEMMA Revisions ==
    /\ NoManifest \in Entry /\ NoManifest.rev = 0
    /\ \A m \in Entry : m.rev \in Nat /\ (m.rev = 0 <=> m = NoManifest)
    /\ \A m \in Manifest : m \in Entry /\ m # NoManifest
  BY StoreConstants DEF Entry, NoManifest

LEMMA EmptyTyped == ClosedAuthority \in Authorities /\ NoOperation \in Operations
  BY Revisions DEF ClosedAuthority, Authorities, NoOperation, Operations, Ops, Results

\* A process goes to another step of its call.
LEMMA GotoMoves ==
    ASSUME StoreTypeOK, NEW p \in Proc, NEW s \in Steps, Goto(p, s)
    PROVE  /\ step' \in [Proc -> Steps] /\ step'[p] = s
           /\ \A q \in Proc : q # p => step'[q] = step[q]
  BY DEF StoreTypeOK, Goto

\* A call returns.
LEMMA ReturnMoves ==
    ASSUME StoreTypeOK, NEW p \in Proc, NEW r \in Results, Return(p, r)
    PROVE  /\ step' \in [Proc -> Steps] /\ step'[p] = "returned"
           /\ \A q \in Proc : q # p => step'[q] = step[q] /\ req'[q] = req[q]
           /\ req' \in [Proc -> Operations] /\ req'[p] = [req[p] EXCEPT !.res = r]
           /\ req'[p].res = r /\ req'[p].op = req[p].op /\ req'[p].ck = req[p].ck
           /\ req'[p].man = req[p].man
           /\ lock' = IF lock = p THEN NoProc ELSE lock
           /\ lock' \in Proc \cup {NoProc}
  <1>1. step' \in [Proc -> Steps] /\ step'[p] = "returned"
        /\ \A q \in Proc : q # p => step'[q] = step[q]
    BY DEF StoreTypeOK, Return, Steps
  <1>2. req' = [req EXCEPT ![p] = [req[p] EXCEPT !.res = r]]
    BY DEF StoreTypeOK, Return
  <1>3. req[p] \in Operations /\ [req[p] EXCEPT !.res = r] \in Operations
    BY DEF StoreTypeOK, Operations
  <1>4. req' \in [Proc -> Operations] /\ req'[p] = [req[p] EXCEPT !.res = r]
        /\ \A q \in Proc : q # p => req'[q] = req[q]
    BY <1>2, <1>3 DEF StoreTypeOK, Operations
  <1>5. /\ req'[p].res = r /\ req'[p].op = req[p].op /\ req'[p].ck = req[p].ck
        /\ req'[p].man = req[p].man
    BY <1>3, <1>4 DEF Operations
  <1>6. lock' = (IF lock = p THEN NoProc ELSE lock) /\ lock' \in Proc \cup {NoProc}
    BY DEF StoreTypeOK, Return
  <1> QED  BY <1>1, <1>4, <1>5, <1>6

\* What a successful call hands out becomes the authority's trust.
LEMMA ObservedMoves ==
    ASSUME StoreTypeOK, NEW p \in Proc, NEW m \in Entry, Observed(p, m)
    PROVE  /\ auth' \in [Proc -> Authorities] /\ auth'[p].trust = m
           /\ \A q \in Proc : q # p => auth'[q] = auth[q]
  <1>1. auth' = [auth EXCEPT ![p] = [auth[p] EXCEPT !.trust = m, !.poisoned = FALSE]]
    BY DEF StoreTypeOK, Observed
  <1>2. [auth[p] EXCEPT !.trust = m, !.poisoned = FALSE] \in Authorities
    BY DEF StoreTypeOK, Authorities
  <1> QED  BY <1>1, <1>2 DEF StoreTypeOK, Authorities

\* An authority is poisoned; what it trusts stays.
LEMMA PoisonMoves ==
    ASSUME StoreTypeOK, NEW p \in Proc, auth' = [auth EXCEPT ![p].poisoned = TRUE]
    PROVE  /\ auth' \in [Proc -> Authorities]
           /\ \A q \in Proc : auth'[q].trust = auth[q].trust
  BY DEF StoreTypeOK, Authorities

-----------------------------------------------------------------------------
(* The directory.                                                          *)

\* A newer manifest is above whatever the older one is above.
LEMMA NewerIsAbove ==
    ASSUME NEW v \in Entry, NEW w \in Entry, NEW e \in Entry, w.rev > v.rev, AtLeast(v, e)
    PROVE  AtLeast(w, e)
  BY Revisions DEF AtLeast, satisfies_floor

\* Every manifest is at or above itself.
LEMMA SelfAbove == ASSUME NEW v PROVE AtLeast(v, v)
  BY DEF AtLeast, satisfies_floor

\* The entries settle on values they may already have, in a sync or a power loss.
LEMMA Settles ==
    ASSUME StoreTypeOK, BeforeFirst, Coherent, NEW c \in disk["current"], NEW d \in disk["previous"],
           disk' = [s \in Slot |-> IF s = "current" THEN {c} ELSE {d}]
    PROVE  /\ disk' \in [Slot -> SUBSET Entry] /\ disk'["current"] = {c} /\ disk'["previous"] = {d}
           /\ Coherent' /\ (Begun => Begun') /\ (~Begun => disk'["previous"] = {NoManifest})
           /\ Begun' <=> c # NoManifest
  <1>1. c \in Entry /\ d \in Entry
    BY DEF StoreTypeOK, Slot
  <1>2. disk' \in [Slot -> SUBSET Entry] /\ disk'["current"] = {c} /\ disk'["previous"] = {d}
    BY <1>1 DEF Slot
  <1>3. (Begun => Begun') /\ (~Begun => d = NoManifest) /\ (Begun' <=> c # NoManifest)
    BY <1>2 DEF Begun, BeforeFirst
  <1>4. Coherent'
    <2>1. CASE Begun
      BY <1>2, <2>1 DEF Coherent
    <2>2. CASE ~Begun
      BY <1>1, <1>2, <1>3, <2>2, Revisions DEF Coherent
    <2> QED  BY <2>1, <2>2
  <1> QED  BY <1>2, <1>3, <1>4

-----------------------------------------------------------------------------
(* What a step of one process leaves to the others.                        *)

Knows(p) == SaveKnows(p) /\ ReadKnows(p)

\* One process at a time is in a transaction.
LEMMA OneTransaction ==
    ASSUME LockHeld, NEW p \in Proc, NEW q \in Proc, step[p] \in InTransaction, q # p
    PROVE  step[q] \notin InTransaction
  BY DEF LockHeld

\* A process that is in no transaction knows as much whatever the directory does.
LEMMA OutsideKnows ==
    ASSUME NEW q \in Proc, step'[q] = step[q], req'[q] = req[q], step[q] \notin InTransaction,
           Knows(q)
    PROVE  Knows(q)'
  BY DEF Knows, SaveKnows, ReadKnows, InTransaction

\* The directory stays: what a process knows of it stays true.
LEMMA QuietKnows ==
    ASSUME NEW q \in Proc, step'[q] = step[q], req'[q] = req[q], UNCHANGED <<live, disk>>,
           ext' = ext \/ step[q] # "promote", Knows(q)
    PROVE  Knows(q)'
  <1>1. SaveKnows(q)'
    BY DEF Knows, SaveKnows
  <1>2. ReadKnows(q)'
    BY DEF Knows, ReadKnows, AtLeast
  <1> QED  BY <1>1, <1>2 DEF Knows

\* A step of p in its call.
LEMMA OthersKnow ==
    ASSUME StoreInv, NEW p \in Proc,
           \A q \in Proc : q # p => step'[q] = step[q] /\ req'[q] = req[q],
           UNCHANGED ext, step[p] \in InTransaction \/ UNCHANGED <<live, disk>>
    PROVE  \A q \in Proc : q # p => Knows(q)'
  <1> SUFFICES ASSUME NEW q \in Proc, q # p PROVE Knows(q)'
    OBVIOUS
  <1>1. Knows(q)
    BY DEF StoreInv, Knows
  <1>2. CASE step[p] \in InTransaction
    BY <1>1, <1>2, OneTransaction, OutsideKnows DEF StoreInv
  <1>3. CASE UNCHANGED <<live, disk>>
    BY <1>1, <1>3, QuietKnows
  <1> QED  BY <1>2, <1>3

\* The lock follows the transaction.
LEMMA LockFollows ==
    ASSUME LockHeld, NEW p \in Proc, \A q \in Proc : q # p => step'[q] = step[q],
           lock' = lock \/ lock \in {p, NoProc}, step'[p] \in InTransaction => lock' = p
    PROVE  LockHeld'
  BY StoreConstants DEF LockHeld

\* A recovery stays alone when p goes on with the call it has made.
LEMMA RecoveryGoesOn ==
    ASSUME RecoveryAlone, NEW p \in Proc, UNCHANGED ext, step[p] # "idle",
           \A q \in Proc : q # p => step'[q] = step[q] /\ req'[q] = req[q],
           req'[p].op = req[p].op, req'[p].ck = req[p].ck
    PROVE  RecoveryAlone'
  BY DEF RecoveryAlone, Recovering

\* The directory and the checkpoints stay, and nothing new is trusted.
LEMMA DirectoryStays ==
    ASSUME StoreInv, NEW p \in Proc, UNCHANGED <<live, disk, ext>>,
           \A q \in Proc : q # p => step'[q] = step[q] /\ req'[q] = req[q],
           \A q \in Proc : auth'[q].trust \in {auth[q].trust, ext, NoManifest},
           req'[p].ck \in {req[p].ck, ext, auth[p].trust, NoManifest},
           req'[p].res # "OK" \/ (req'[p].res = req[p].res /\ req'[p].op = req[p].op
                                   /\ req'[p].man = req[p].man /\ step'[p] = step[p])
    PROVE  LiveOnDisk' /\ BeforeFirst' /\ Coherent' /\ NothingBelow'
  <1>1. LiveOnDisk' /\ Coherent'
    BY DEF StoreInv, LiveOnDisk, Coherent, Begun
  <1>2. BeforeFirst'
    BY DEF StoreInv, BeforeFirst, Begun
  <1>3. NothingBelow'
    <2>1. \A q \in Proc : Pending(q)' => Pending(q) /\ req'[q].man = req[q].man
      BY DEF Pending
    <2> QED  BY <2>1 DEF StoreInv, NothingBelow, AtLeast
  <1> QED  BY <1>1, <1>2, <1>3

\* The directory is synced under p's transaction, and p hands out nothing.
LEMMA DirectorySettles ==
    ASSUME StoreInv, NEW p \in Proc, DirectorySynced, UNCHANGED <<live, ext>>,
           \A q \in Proc : q # p => step'[q] = step[q] /\ req'[q] = req[q],
           \A q \in Proc : auth'[q].trust = auth[q].trust,
           req'[p].ck = req[p].ck, req'[p].res # "OK"
    PROVE  /\ LiveOnDisk' /\ BeforeFirst' /\ Coherent' /\ NothingBelow'
           /\ disk' \in [Slot -> SUBSET Entry]
           /\ disk'["current"] = {live["current"]} /\ disk'["previous"] = {live["previous"]}
  <1>1. /\ disk' = [s \in Slot |-> IF s = "current" THEN {live["current"]} ELSE {live["previous"]}]
        /\ live["current"] \in disk["current"] /\ live["previous"] \in disk["previous"]
    BY DEF DirectorySynced, StoreInv, LiveOnDisk, Slot
  <1>2. /\ disk' \in [Slot -> SUBSET Entry]
        /\ disk'["current"] = {live["current"]} /\ disk'["previous"] = {live["previous"]}
        /\ Coherent' /\ (Begun => Begun') /\ (~Begun => disk'["previous"] = {NoManifest})
    BY <1>1, Settles DEF StoreInv
  <1>3. LiveOnDisk'
    BY <1>2 DEF LiveOnDisk, Slot
  <1>4. BeforeFirst'
    BY <1>2 DEF StoreInv, BeforeFirst
  <1>5. NothingBelow'
    <2>1. \A q \in Proc : Pending(q)' => Pending(q) /\ req'[q].man = req[q].man
      BY DEF Pending
    <2> QED  BY <1>1, <1>2, <2>1 DEF StoreInv, NothingBelow, AtLeast
  <1> QED  BY <1>2, <1>3, <1>4, <1>5

\* A sync that ends p's call with success: p hands out what is current.
LEMMA CommitSettles ==
    ASSUME StoreInv, NEW p \in Proc, DirectorySynced, UNCHANGED <<live, ext>>,
           live["current"] = req[p].man, req[p].man # NoManifest,
           \A q \in Proc : q # p => step'[q] = step[q] /\ req'[q] = req[q],
           req'[p].man = req[p].man
    PROVE  /\ LiveOnDisk' /\ BeforeFirst' /\ Coherent' /\ NothingBelow'
           /\ disk' \in [Slot -> SUBSET Entry]
  <1>1. /\ disk' = [s \in Slot |-> IF s = "current" THEN {live["current"]} ELSE {live["previous"]}]
        /\ live["current"] \in disk["current"] /\ live["previous"] \in disk["previous"]
    BY DEF DirectorySynced, StoreInv, LiveOnDisk, Slot
  <1>2. /\ disk' \in [Slot -> SUBSET Entry]
        /\ disk'["current"] = {live["current"]} /\ disk'["previous"] = {live["previous"]}
        /\ Coherent' /\ (Begun' <=> live["current"] # NoManifest)
    BY <1>1, Settles DEF StoreInv
  <1>3. LiveOnDisk' /\ BeforeFirst'
    BY <1>2 DEF LiveOnDisk, Slot, BeforeFirst
  <1>4. NothingBelow'
    <2>1. \A q \in Proc : Pending(q)' => q = p \/ (Pending(q) /\ req'[q].man = req[q].man)
      BY DEF Pending
    <2> QED  BY <1>1, <1>2, <2>1, SelfAbove DEF StoreInv, NothingBelow, AtLeast
  <1> QED  BY <1>2, <1>3, <1>4

-----------------------------------------------------------------------------
(* The steps.                                                              *)

Typed ==
    /\ live \in [Slot -> Entry] /\ disk \in [Slot -> SUBSET Entry] /\ litter \in BOOLEAN
    /\ lock \in Proc \cup {NoProc} /\ auth \in [Proc -> Authorities] /\ step \in [Proc -> Steps]
    /\ req \in [Proc -> Operations] /\ ext \in Entry

LEMMA TypedIsTypeOK == (StoreTypeOK <=> Typed) /\ (StoreTypeOK' <=> Typed')
  BY DEF StoreTypeOK, Typed, Operations, Authorities

\* What is left to show of a step of p, beside the directory.
LEMMA StepKeeps ==
    ASSUME StoreInv, NEW p \in Proc, Typed', UNCHANGED ext, step[p] # "idle",
           LiveOnDisk' /\ BeforeFirst' /\ Coherent' /\ NothingBelow',
           \A q \in Proc : q # p => step'[q] = step[q] /\ req'[q] = req[q],
           step[p] \in InTransaction \/ UNCHANGED <<live, disk>>,
           lock' = lock \/ lock \in {p, NoProc}, step'[p] \in InTransaction => lock' = p,
           req'[p].op = req[p].op, req'[p].ck = req[p].ck, Knows(p)'
    PROVE  StoreInv'
  <1>1. LockHeld' /\ RecoveryAlone'
    BY LockFollows, RecoveryGoesOn DEF StoreInv
  <1>2. \A q \in Proc : Knows(q)'
    BY OthersKnow
  <1> QED  BY <1>1, <1>2, TypedIsTypeOK DEF StoreInv, Knows

\* A process that opens or closes its authority.
LEMMA OpenStep ==
    ASSUME StoreInv, NEW p \in Proc, authority_open_v2(p) \/ authority_destroy(p)
    PROVE  StoreInv'
  <1>1. UNCHANGED <<live, disk, litter, lock, step, req, ext>> /\ Typed
    BY TypedIsTypeOK DEF authority_open_v2, authority_destroy, StoreInv
  <1>2. PICK a \in Authorities : auth' = [auth EXCEPT ![p] = a] /\ a.trust \in {ext, NoManifest}
    <2> DEFINE opened == [open |-> TRUE, poisoned |-> FALSE, trust |-> ext]
    <2>1. opened \in Authorities /\ opened.trust = ext
      BY <1>1 DEF Typed, Authorities
    <2>2. ClosedAuthority \in Authorities /\ ClosedAuthority.trust = NoManifest
      BY EmptyTyped DEF ClosedAuthority
    <2>3. auth' = [auth EXCEPT ![p] = opened] \/ auth' = [auth EXCEPT ![p] = ClosedAuthority]
      BY DEF authority_open_v2, authority_destroy
    <2> HIDE DEF opened
    <2> QED  BY <2>1, <2>2, <2>3
  <1>3. /\ auth' \in [Proc -> Authorities]
        /\ \A q \in Proc : auth'[q].trust \in {auth[q].trust, ext, NoManifest}
    BY <1>1, <1>2 DEF Typed
  <1>4. LiveOnDisk' /\ BeforeFirst' /\ Coherent' /\ NothingBelow'
    BY <1>1, <1>3, DirectoryStays
  <1>5. \A q \in Proc : Knows(q)'
    BY <1>1, QuietKnows DEF StoreInv, Knows
  <1>6. LockHeld' /\ RecoveryAlone'
    BY <1>1 DEF StoreInv, LockHeld, RecoveryAlone, Recovering
  <1>7. Typed'
    BY <1>1, <1>3 DEF Typed
  <1> QED  BY <1>4, <1>5, <1>6, <1>7, TypedIsTypeOK DEF StoreInv, Knows

\* A call is made.
LEMMA CallStep ==
    ASSUME StoreInv, NEW p \in Proc, Call(p)
    PROVE  StoreInv'
  <1>1. UNCHANGED <<live, disk, litter, lock, auth, ext>> /\ Typed /\ step[p] = "idle"
    BY TypedIsTypeOK DEF Call, StoreInv
  <1>2. PICK op \in Ops, ck \in {ext, auth[p].trust}, m \in Manifest \cup {NoManifest} :
          /\ (op = "save") <=> (m # NoManifest)
          /\ op = "recover" => ck = ext /\ \A q \in Proc : step[q] = "idle"
          /\ req' = [req EXCEPT ![p] = [NoOperation EXCEPT !.op = op, !.ck = ck,
                                                           !.seen = ext, !.man = m]]
    BY DEF Call
  <1>3. PICK r \in Operations :
          /\ r.op = op /\ r.ck = ck /\ r.man = m /\ r.res = "none"
          /\ req' = [req EXCEPT ![p] = r]
    <2>1. ck \in Entry /\ m \in Entry
      BY <1>1, Revisions DEF Typed, Authorities, Entry
    <2> DEFINE r == [NoOperation EXCEPT !.op = op, !.ck = ck, !.seen = ext, !.man = m]
    <2>2. r \in Operations /\ r.op = op /\ r.ck = ck /\ r.man = m /\ r.res = "none"
      BY <1>1, <2>1, EmptyTyped DEF Typed, Operations, NoOperation
    <2> QED  BY <1>2, <2>2
  <1>4. /\ req' \in [Proc -> Operations] /\ req'[p] = r
        /\ \A q \in Proc : q # p => req'[q] = req[q]
    BY <1>1, <1>3 DEF Typed
  <1>5. /\ step' \in [Proc -> Steps] /\ step'[p] = "called"
        /\ \A q \in Proc : q # p => step'[q] = step[q]
    BY GotoMoves DEF Call, StoreInv, Steps
  <1>6. Typed'
    BY <1>1, <1>4, <1>5 DEF Typed
  <1>7. LiveOnDisk' /\ BeforeFirst' /\ Coherent' /\ NothingBelow'
    BY <1>1, <1>3, <1>4, <1>5, DirectoryStays
  <1>8. LockHeld'
    BY <1>1, <1>5, LockFollows DEF StoreInv, InTransaction
  <1>9. RecoveryAlone'
    BY <1>1, <1>2, <1>3, <1>4, <1>5 DEF Call, RecoveryAlone, Recovering
  <1>10. Knows(p)'
    BY <1>2, <1>3, <1>4, <1>5 DEF Knows, SaveKnows, ReadKnows, InTransaction
  <1>11. \A q \in Proc : Knows(q)'
    BY <1>1, <1>4, <1>5, <1>10, OthersKnow
  <1> QED  BY <1>6, <1>7, <1>8, <1>9, <1>11, TypedIsTypeOK DEF StoreInv, Knows

\* A call is refused before it reaches the directory.
LEMMA RefusedStep ==
    ASSUME StoreInv, NEW p \in Proc, BindRefused(p)
    PROVE  StoreInv'
  <1>1. UNCHANGED <<live, disk, litter, auth, ext>> /\ Typed /\ step[p] = "called"
    BY TypedIsTypeOK DEF BindRefused, StoreInv
  <1>2. PICK r \in Results \ {"OK"} : Return(p, r)
    BY DEF BindRefused, bind_v2_call, Results
  <1>3. /\ step' \in [Proc -> Steps] /\ step'[p] = "returned"
        /\ \A q \in Proc : q # p => step'[q] = step[q] /\ req'[q] = req[q]
        /\ req' \in [Proc -> Operations] /\ req'[p].res = r /\ req'[p].op = req[p].op
        /\ req'[p].ck = req[p].ck /\ req'[p].man = req[p].man
        /\ lock' = (IF lock = p THEN NoProc ELSE lock) /\ lock' \in Proc \cup {NoProc}
    BY <1>2, ReturnMoves DEF StoreInv
  <1>4. Typed'
    BY <1>1, <1>3 DEF Typed
  <1>5. LiveOnDisk' /\ BeforeFirst' /\ Coherent' /\ NothingBelow'
    BY <1>1, <1>3, DirectoryStays
  <1>6. Knows(p)'
    BY <1>1, <1>3 DEF StoreInv, Knows, SaveKnows, ReadKnows, InTransaction
  <1> QED  BY <1>1, <1>3, <1>4, <1>5, <1>6, StepKeeps DEF InTransaction

\* The transaction begins: the process holds the lock and notes what it finds.
LEMMA StoreLockStep ==
    ASSUME StoreInv, NEW p \in Proc, LockDirectory(p)
    PROVE  StoreInv'
  <1>1. /\ UNCHANGED <<live, disk, litter, auth, ext>> /\ Typed /\ step[p] = "called"
        /\ lock = NoProc /\ lock' = p
    BY TypedIsTypeOK DEF LockDirectory, StoreInv
  <1>2. /\ step' \in [Proc -> Steps] /\ step'[p] = "check"
        /\ \A q \in Proc : q # p => step'[q] = step[q]
    BY GotoMoves DEF LockDirectory, StoreInv, Steps
  <1>3. /\ req' \in [Proc -> Operations] /\ \A q \in Proc : q # p => req'[q] = req[q]
        /\ req'[p].op = req[p].op /\ req'[p].ck = req[p].ck /\ req'[p].man = req[p].man
        /\ req'[p].res = req[p].res
        /\ req'[p].from = live["current"] /\ req'[p].fromDisk = disk["current"]
    <2>1. req' = [req EXCEPT ![p] = [req[p] EXCEPT !.from = live["current"],
                                                  !.fromDisk = disk["current"]]]
      BY <1>1 DEF LockDirectory, Typed
    <2>2. live["current"] \in Entry /\ disk["current"] \in SUBSET Entry
      BY <1>1 DEF Typed, Slot
    <2>3. req[p] \in Operations
      BY <1>1 DEF Typed
    <2>4. [req[p] EXCEPT !.from = live["current"], !.fromDisk = disk["current"]] \in Operations
      BY <2>2, <2>3 DEF Operations
    <2> QED  BY <1>1, <2>1, <2>3, <2>4 DEF Typed, Operations
  <1>4. Typed'
    BY <1>1, <1>2, <1>3 DEF Typed
  <1>5. LiveOnDisk' /\ BeforeFirst' /\ Coherent' /\ NothingBelow'
    <2>1. LiveOnDisk' /\ Coherent'
      BY <1>1 DEF StoreInv, LiveOnDisk, Coherent, Begun
    <2>2. BeforeFirst'
      BY <1>1, <1>3 DEF StoreInv, BeforeFirst, Begun
    <2>3. \A q \in Proc : Pending(q)' => Pending(q) /\ req'[q].man = req[q].man
      BY <1>2, <1>3 DEF Pending
    <2> QED  BY <1>1, <2>1, <2>2, <2>3 DEF StoreInv, NothingBelow, AtLeast
  <1>6. SaveKnows(p)'
    BY <1>1, <1>2, <1>3 DEF StoreInv, SaveKnows, LiveOnDisk, Slot
  <1>7. ReadKnows(p)'
    <2>1. req[p].op # "save" => req[p].ck # NoManifest
      BY Revisions DEF LockDirectory, bind_v2_call
    <2> QED  BY <1>1, <1>2, <1>3, <2>1 DEF StoreInv, ReadKnows, InTransaction
  <1> QED  BY <1>1, <1>2, <1>3, <1>4, <1>5, <1>6, <1>7, StepKeeps DEF InTransaction, Knows

\* A transaction ends without success and leaves the directory as it is.
LEMMA FailedStep ==
    ASSUME StoreInv, NEW p \in Proc, NEW r \in Results \ {"OK"}, step[p] \in InTransaction,
           Return(p, r), UNCHANGED <<live, disk, ext>>, litter' \in BOOLEAN,
           auth' \in [Proc -> Authorities], \A q \in Proc : auth'[q].trust = auth[q].trust
    PROVE  StoreInv'
  <1>1. Typed /\ lock = p /\ step[p] # "idle"
    BY TypedIsTypeOK DEF StoreInv, LockHeld, InTransaction
  <1>2. /\ step' \in [Proc -> Steps] /\ step'[p] = "returned"
        /\ \A q \in Proc : q # p => step'[q] = step[q] /\ req'[q] = req[q]
        /\ req' \in [Proc -> Operations] /\ req'[p].res = r /\ req'[p].op = req[p].op
        /\ req'[p].ck = req[p].ck /\ req'[p].man = req[p].man
        /\ lock' \in Proc \cup {NoProc}
    BY ReturnMoves DEF StoreInv
  <1>3. Typed'
    BY <1>1, <1>2 DEF Typed
  <1>4. LiveOnDisk' /\ BeforeFirst' /\ Coherent' /\ NothingBelow'
    BY <1>2, DirectoryStays
  <1>5. Knows(p)'
    BY <1>1, <1>2 DEF StoreInv, Knows, SaveKnows, ReadKnows, InTransaction
  <1> QED  BY <1>1, <1>2, <1>3, <1>4, <1>5, StepKeeps DEF InTransaction

\* A transaction goes on without touching the directory.
LEMMA GoesOnStep ==
    ASSUME StoreInv, NEW p \in Proc, NEW s \in InTransaction, step[p] \in InTransaction,
           Goto(p, s), UNCHANGED <<live, disk, ext, auth, lock, req>>, litter' \in BOOLEAN,
           Knows(p)'
    PROVE  StoreInv'
  <1>1. Typed /\ lock = p /\ step[p] # "idle" /\ req[p].res = "none"
    BY TypedIsTypeOK DEF StoreInv, LockHeld, InTransaction, ReadKnows
  <1>2. /\ step' \in [Proc -> Steps] /\ step'[p] = s
        /\ \A q \in Proc : q # p => step'[q] = step[q]
    BY GotoMoves DEF StoreInv, InTransaction, Steps
  <1>3. Typed'
    BY <1>1, <1>2 DEF Typed
  <1>4. LiveOnDisk' /\ BeforeFirst' /\ Coherent' /\ NothingBelow'
    BY <1>1, <1>2, DirectoryStays
  <1> QED  BY <1>1, <1>2, <1>3, <1>4, StepKeeps

\* A sync ends the transaction with success.
LEMMA CommittedStep ==
    ASSUME StoreInv, NEW p \in Proc, step[p] \in {"resync", "commit", "promote_sync"},
           DirectorySynced, Return(p, "OK"), Observed(p, req[p].man), UNCHANGED <<live, litter, ext>>
    PROVE  StoreInv'
  <1>1. /\ Typed /\ lock = p /\ step[p] \in InTransaction /\ live["current"] = req[p].man
        /\ req[p].man # NoManifest /\ req[p].man \in Entry
    BY TypedIsTypeOK DEF StoreInv, LockHeld, InTransaction, ReadKnows, Typed, Operations
  <1>2. /\ step' \in [Proc -> Steps] /\ step'[p] = "returned"
        /\ \A q \in Proc : q # p => step'[q] = step[q] /\ req'[q] = req[q]
        /\ req' \in [Proc -> Operations] /\ req'[p].op = req[p].op
        /\ req'[p].ck = req[p].ck /\ req'[p].man = req[p].man
        /\ lock' \in Proc \cup {NoProc}
    BY ReturnMoves DEF StoreInv, Results
  <1>3. auth' \in [Proc -> Authorities]
    BY <1>1, ObservedMoves DEF StoreInv
  <1>4. /\ LiveOnDisk' /\ BeforeFirst' /\ Coherent' /\ NothingBelow'
        /\ disk' \in [Slot -> SUBSET Entry]
    BY <1>1, <1>2, CommitSettles
  <1>5. Typed'
    BY <1>1, <1>2, <1>3, <1>4 DEF Typed
  <1>6. Knows(p)'
    BY <1>1, <1>2 DEF Knows, SaveKnows, ReadKnows, InTransaction
  <1> QED  BY <1>1, <1>2, <1>4, <1>5, <1>6, StepKeeps DEF InTransaction

\* Abandoned temporaries are removed.
LEMMA CleanupStep ==
    ASSUME StoreInv, NEW p \in Proc, cleanup_internal_artifacts(p)
    PROVE  StoreInv'
  <1>1. /\ UNCHANGED <<live, auth, ext>> /\ Typed /\ step[p] = "check" /\ litter' = FALSE
        /\ lock = p /\ req[p].res = "none"
    BY TypedIsTypeOK DEF cleanup_internal_artifacts, StoreInv, LockHeld, InTransaction, ReadKnows
  <1>2. CASE DirectorySynced /\ UNCHANGED <<lock, step, req>>
    <2>1. /\ LiveOnDisk' /\ BeforeFirst' /\ Coherent' /\ NothingBelow'
          /\ disk' \in [Slot -> SUBSET Entry] /\ disk'["current"] = {live["current"]}
      BY <1>1, <1>2, DirectorySettles
    <2>2. Typed'
      BY <1>1, <1>2, <2>1 DEF Typed
    <2>3. Knows(p)'
      BY <1>1, <1>2, <2>1 DEF StoreInv, Knows, SaveKnows, ReadKnows, LiveOnDisk, Slot
    <2> QED  BY <1>1, <1>2, <2>1, <2>2, <2>3, StepKeeps DEF InTransaction
  <1>3. CASE Return(p, "EIO") /\ UNCHANGED disk
    BY <1>1, <1>3, FailedStep DEF Typed, Results, InTransaction
  <1> QED  BY <1>2, <1>3 DEF cleanup_internal_artifacts

\* A load hands out what is current.
LEMMA LoadStep ==
    ASSUME StoreInv, NEW p \in Proc, manifest_load_v2(p)
    PROVE  StoreInv'
  <1> DEFINE m == live["current"]
  <1>1. /\ UNCHANGED <<live, disk, litter, ext>> /\ Typed /\ step[p] = "check"
        /\ lock = p /\ req[p].op = "load" /\ req[p].ck # NoManifest /\ m \in Entry /\ req[p] \in Operations
    BY TypedIsTypeOK
    DEF manifest_load_v2, DirectoryUnchanged, StoreInv, LockHeld, InTransaction, ReadKnows, Typed, Slot
  <1>2. ASSUME NEW r \in Results \ {"OK"}, Return(p, r), UNCHANGED auth PROVE StoreInv'
    BY <1>1, <1>2, FailedStep DEF Typed, InTransaction
  <1>3. CASE /\ Observed(p, m) /\ step' = [step EXCEPT ![p] = "returned"]
             /\ req' = [req EXCEPT ![p].res = "OK", ![p].man = m] /\ lock' = NoProc
    <2>1. auth' \in [Proc -> Authorities] /\ \A q \in Proc : q # p => auth'[q] = auth[q]
      BY <1>1, <1>3, ObservedMoves DEF StoreInv
    <2>2. /\ step' \in [Proc -> Steps] /\ step'[p] = "returned"
          /\ \A q \in Proc : q # p => step'[q] = step[q]
      BY <1>1, <1>3 DEF Typed, Steps
    <2>3. /\ req' \in [Proc -> Operations] /\ req'[p].op = "load" /\ req'[p].ck = req[p].ck
          /\ \A q \in Proc : q # p => req'[q] = req[q]
      <3>1. req' = [req EXCEPT ![p] = [req[p] EXCEPT !.res = "OK", !.man = m]]
        BY <1>1, <1>3 DEF Typed
      <3>2. [req[p] EXCEPT !.res = "OK", !.man = m] \in Operations
        BY <1>1 DEF Operations, Results
      <3> QED  BY <1>1, <3>1, <3>2 DEF Typed, Operations
    <2>4. Typed'
      BY <1>1, <1>3, <2>1, <2>2, <2>3 DEF Typed
    <2>5. Begun
      BY <1>1 DEF StoreInv, BeforeFirst
    <2>6. LiveOnDisk' /\ Coherent' /\ BeforeFirst'
      BY <1>1, <2>5 DEF StoreInv, LiveOnDisk, Coherent, Begun, BeforeFirst
    <2>7. NothingBelow'
      <3>1. \A q \in Proc : Pending(q)' => Pending(q) /\ req'[q].man = req[q].man
        BY <2>2, <2>3 DEF Pending
      <3> QED  BY <1>1, <3>1 DEF StoreInv, NothingBelow, AtLeast
    <2>8. Knows(p)'
      BY <2>2, <2>3 DEF Knows, SaveKnows, ReadKnows, InTransaction
    <2> QED  BY <1>1, <2>2, <2>3, <2>4, <2>6, <2>7, <2>8, StepKeeps DEF InTransaction
  <1> QED  BY <1>2, <1>3 DEF manifest_load_v2, Results

-----------------------------------------------------------------------------
(* The steps of a save.                                                    *)

\* The compare of the compare-and-swap.
LEMMA SaveCheckStep ==
    ASSUME StoreInv, NEW p \in Proc, save_check(p)
    PROVE  StoreInv'
  <1>1. /\ UNCHANGED <<live, disk, litter, auth, ext>> /\ Typed /\ step[p] = "check"
        /\ req[p].op = "save" /\ SaveKnows(p) /\ ReadKnows(p)
        /\ live["current"] \in disk["current"]
    BY TypedIsTypeOK DEF save_check, StoreInv, LiveOnDisk, Slot
  <1>2. ASSUME NEW r \in Results \ {"OK"}, Return(p, r) PROVE StoreInv'
    BY <1>1, <1>2, FailedStep DEF Typed, InTransaction
  <1>3. ASSUME SaveVerdict(p) \in Steps, Goto(p, SaveVerdict(p)), UNCHANGED <<lock, req>>
        PROVE  StoreInv'
    <2>1. live["current"] = req[p].ck /\ SaveVerdict(p) \in {"resync", "temp"}
      BY <1>3 DEF SaveVerdict, Steps
    <2>2. step'[p] = SaveVerdict(p)
      BY <1>3, GotoMoves DEF StoreInv
    <2>3. CASE SaveVerdict(p) = "resync"
      <3>1. req[p].man = req[p].ck /\ req[p].man # NoManifest
        BY <1>1, <2>3 DEF SaveVerdict, SaveKnows
      <3>2. Knows(p)'
        BY <1>1, <1>3, <2>1, <2>2, <2>3, <3>1 DEF Knows, SaveKnows, ReadKnows, InTransaction
      <3> QED  BY <1>1, <1>3, <2>3, <3>2, GoesOnStep DEF Typed, InTransaction
    <2>4. CASE SaveVerdict(p) = "temp"
      <3>1. req[p].man.rev > req[p].ck.rev
        <4>1. req[p].man.rev \in Nat /\ req[p].ck.rev \in Nat
          BY <1>1, Revisions DEF Typed, Operations
        <4> QED  BY <2>4, <4>1 DEF SaveVerdict
      <3>2. Knows(p)'
        BY <1>1, <1>3, <2>1, <2>2, <2>4, <3>1 DEF Knows, SaveKnows, ReadKnows, InTransaction
      <3> QED  BY <1>1, <1>3, <2>4, <3>2, GoesOnStep DEF Typed, InTransaction
    <2> QED  BY <2>1, <2>3, <2>4
  <1>4. CASE SaveVerdict(p) \notin Steps /\ Return(p, SaveVerdict(p))
    <2>1. SaveVerdict(p) = "ESTALE"
      BY <1>4 DEF SaveVerdict, Steps
    <2> QED  BY <1>2, <1>4, <2>1 DEF Results
  <1>5. CASE Return(p, "EIO")
    BY <1>2, <1>5 DEF Results
  <1> QED  BY <1>3, <1>4, <1>5 DEF save_check

\* The content is synced again, in a save or a recovery.
LEMMA ResyncStep ==
    ASSUME StoreInv, NEW p \in Proc, sync_existing(p)
    PROVE  StoreInv'
  <1>1. UNCHANGED <<live, litter, ext>> /\ step[p] = "resync" /\ Typed
    BY TypedIsTypeOK DEF sync_existing, StoreInv
  <1>2. CASE DirectorySynced /\ Return(p, "OK") /\ Observed(p, req[p].man)
    BY <1>1, <1>2, CommittedStep
  <1>3. ASSUME NEW r \in Results \ {"OK"}, Return(p, r), UNCHANGED <<disk, auth>> PROVE StoreInv'
    BY <1>1, <1>3, FailedStep DEF Typed, InTransaction
  <1> QED  BY <1>2, <1>3 DEF sync_existing, Results

\* A save or a promotion that gives up before its manifest is in place.
LEMMA GiveUpStep ==
    ASSUME StoreInv, NEW p \in Proc, step[p] \in InTransaction, GiveUp(p), UNCHANGED ext
    PROVE  StoreInv'
  <1>1. Typed
    BY TypedIsTypeOK DEF StoreInv
  <1> QED  BY <1>1, FailedStep DEF GiveUp, Typed, Results

\* The contents are written to a temporary.
LEMMA TemporaryStep ==
    ASSUME StoreInv, NEW p \in Proc, write_temporary(p)
    PROVE  StoreInv'
  <1>1. /\ UNCHANGED ext /\ step[p] = "temp" /\ Typed /\ SaveKnows(p) /\ ReadKnows(p)
    BY TypedIsTypeOK DEF write_temporary, StoreInv
  <1>2. live["current"] = req[p].ck
    BY <1>1 DEF SaveKnows
  <1>3. CASE /\ litter' = TRUE /\ Goto(p, "backup") /\ live["current"] # NoManifest
             /\ UNCHANGED <<live, disk, auth, lock, req>>
    <2>1. step'[p] = "backup"
      BY <1>3, GotoMoves DEF StoreInv, Steps
    <2>2. Knows(p)'
      BY <1>1, <1>2, <1>3, <2>1 DEF Knows, SaveKnows, ReadKnows, InTransaction
    <2> QED  BY <1>1, <1>3, <2>2, GoesOnStep DEF InTransaction
  <1>4. CASE /\ litter' = TRUE /\ Goto(p, "install") /\ live["current"] = NoManifest
             /\ UNCHANGED <<live, disk, auth, lock, req>>
    <2>1. step'[p] = "install"
      BY <1>4, GotoMoves DEF StoreInv, Steps
    <2>2. Knows(p)'
      BY <1>1, <1>2, <1>4, <2>1 DEF Knows, SaveKnows, ReadKnows, InTransaction
    <2> QED  BY <1>1, <1>4, <2>2, GoesOnStep DEF InTransaction
  <1>5. CASE GiveUp(p)
    BY <1>1, <1>5, GiveUpStep DEF InTransaction
  <1> QED  BY <1>3, <1>4, <1>5 DEF write_temporary

\* The current manifest becomes .previous as well.
LEMMA BackupStep ==
    ASSUME StoreInv, NEW p \in Proc, install_previous(p)
    PROVE  StoreInv'
  <1>1. /\ UNCHANGED ext /\ step[p] = "backup" /\ Typed /\ SaveKnows(p) /\ ReadKnows(p)
        /\ lock = p /\ req[p].res = "none"
    BY TypedIsTypeOK DEF install_previous, StoreInv, LockHeld, InTransaction, ReadKnows
  <1> DEFINE c == live["current"]
  <1>2. c = req[p].ck /\ c # NoManifest /\ c \in disk["current"] /\ c \in Entry
    BY <1>1 DEF SaveKnows, Typed, Slot, StoreInv, LiveOnDisk
  <1>3. CASE GiveUp(p)
    BY <1>1, <1>3, GiveUpStep DEF InTransaction
  <1>4. CASE /\ live' = Put(live, "previous", c) /\ disk' = MayHold(disk, "previous", c)
             /\ Goto(p, "prior_sync") /\ UNCHANGED <<auth, lock, req, litter>>
    <2>1. /\ live' \in [Slot -> Entry] /\ live'["current"] = c /\ live'["previous"] = c
          /\ disk' \in [Slot -> SUBSET Entry] /\ disk'["current"] = disk["current"]
          /\ disk'["previous"] = disk["previous"] \cup {c}
      BY <1>1, <1>2, <1>4 DEF Put, MayHold, Typed, Slot
    <2>2. /\ step' \in [Proc -> Steps] /\ step'[p] = "prior_sync"
          /\ \A q \in Proc : q # p => step'[q] = step[q]
      BY <1>4, GotoMoves DEF StoreInv, Steps
    <2>3. Typed'
      BY <1>1, <1>4, <2>1, <2>2 DEF Typed
    <2>4. Begun /\ Begun'
      BY <1>1, <1>2, <2>1 DEF StoreInv, BeforeFirst, Begun
    <2>5. LiveOnDisk' /\ BeforeFirst' /\ Coherent'
      BY <1>2, <2>1, <2>4 DEF StoreInv, LiveOnDisk, BeforeFirst, Coherent, Slot
    <2>6. NothingBelow'
      <3>1. \A q \in Proc : Pending(q)' => Pending(q) /\ req'[q].man = req[q].man
        BY <1>4, <2>2 DEF Pending
      <3> QED  BY <1>1, <2>1, <3>1 DEF StoreInv, NothingBelow, AtLeast
    <2>7. Knows(p)'
      BY <1>1, <1>2, <1>4, <2>1, <2>2 DEF Knows, SaveKnows, ReadKnows, InTransaction
    <2> QED  BY <1>1, <1>4, <2>2, <2>3, <2>5, <2>6, <2>7, StepKeeps DEF InTransaction
  <1> QED  BY <1>3, <1>4 DEF install_previous

\* The copy is synced before anything is installed over the original.
LEMMA BackupSyncStep ==
    ASSUME StoreInv, NEW p \in Proc, sync_previous(p)
    PROVE  StoreInv'
  <1>1. /\ UNCHANGED ext /\ step[p] = "prior_sync" /\ Typed /\ SaveKnows(p) /\ ReadKnows(p)
        /\ lock = p /\ req[p].res = "none"
    BY TypedIsTypeOK DEF sync_previous, StoreInv, LockHeld, InTransaction, ReadKnows
  <1>2. CASE GiveUp(p)
    BY <1>1, <1>2, GiveUpStep DEF InTransaction
  <1>3. CASE DirectorySynced /\ Goto(p, "install") /\ UNCHANGED <<live, auth, lock, req, litter>>
    <2>1. /\ step' \in [Proc -> Steps] /\ step'[p] = "install"
          /\ \A q \in Proc : q # p => step'[q] = step[q]
      BY <1>3, GotoMoves DEF StoreInv, Steps
    <2>2. /\ LiveOnDisk' /\ BeforeFirst' /\ Coherent' /\ NothingBelow'
          /\ disk' \in [Slot -> SUBSET Entry]
          /\ disk'["current"] = {live["current"]} /\ disk'["previous"] = {live["previous"]}
      BY <1>1, <1>3, <2>1, DirectorySettles
    <2>3. Typed'
      BY <1>1, <1>3, <2>1, <2>2 DEF Typed
    <2>4. live["current"] = req[p].ck /\ live["current"] \in disk["current"]
      BY <1>1 DEF SaveKnows, StoreInv, LiveOnDisk, Slot
    <2>5. Knows(p)'
      BY <1>1, <1>3, <2>1, <2>2, <2>4 DEF Knows, SaveKnows, ReadKnows, InTransaction
    <2> QED  BY <1>1, <1>3, <2>1, <2>2, <2>3, <2>5, StepKeeps DEF InTransaction
  <1> QED  BY <1>2, <1>3 DEF sync_previous

\* The rename that makes the new manifest current.
LEMMA InstallStep ==
    ASSUME StoreInv, NEW p \in Proc, install_signed_v2(p)
    PROVE  StoreInv'
  <1> DEFINE m == req[p].man
             c == req[p].ck
  <1>1. /\ UNCHANGED ext /\ step[p] = "install" /\ Typed /\ SaveKnows(p) /\ ReadKnows(p)
        /\ lock = p /\ req[p].res = "none"
    BY TypedIsTypeOK DEF install_signed_v2, StoreInv, LockHeld, InTransaction, ReadKnows
  <1>2. /\ m \in Entry /\ c \in Entry /\ m # NoManifest /\ m.rev > c.rev
        /\ c = req[p].from /\ c \in disk["current"] /\ req[p].op = "save"
    BY <1>1 DEF SaveKnows, Typed, Operations
  <1>3. CASE GiveUp(p)
    BY <1>1, <1>3, GiveUpStep DEF InTransaction
  <1>4. CASE /\ live' = Put(live, "current", m) /\ disk' = MayHold(disk, "current", m)
             /\ litter' = FALSE /\ Goto(p, "verify") /\ UNCHANGED <<auth, lock, req>>
    <2>1. /\ live' \in [Slot -> Entry] /\ live'["current"] = m /\ live'["previous"] = live["previous"]
          /\ disk' \in [Slot -> SUBSET Entry] /\ disk'["current"] = disk["current"] \cup {m}
          /\ disk'["previous"] = disk["previous"]
      BY <1>1, <1>2, <1>4 DEF Put, MayHold, Typed, Slot
    <2>2. /\ step' \in [Proc -> Steps] /\ step'[p] = "verify"
          /\ \A q \in Proc : q # p => step'[q] = step[q]
      BY <1>4, GotoMoves DEF StoreInv, Steps
    <2>3. Typed'
      BY <1>1, <1>4, <2>1, <2>2 DEF Typed
    <2>4. LiveOnDisk' /\ BeforeFirst'
      <3>1. Begun' <=> Begun
        BY <1>2, <2>1 DEF Begun
      <3> QED  BY <1>1, <1>4, <2>1, <3>1 DEF StoreInv, LiveOnDisk, BeforeFirst, Slot
    <2>5. Coherent'
      <3>1. CASE c = NoManifest
        BY <1>2, <2>1, <3>1 DEF Coherent, Begun
      <3>2. CASE c # NoManifest
        <4>1. disk["current"] = {c} /\ disk["previous"] = {c}
          BY <1>1, <3>2 DEF SaveKnows
        <4> QED  BY <1>2, <2>1, <4>1, Revisions DEF Coherent
      <3> QED  BY <3>1, <3>2
    <2>6. NothingBelow'
      <3>1. \A q \in Proc : Pending(q)' => Pending(q) /\ req'[q].man = req[q].man /\ req[q].man \in Entry
        BY <1>1, <1>4, <2>2 DEF Pending, Typed, Operations
      <3>2. AtLeast(c, ext) /\ \A q \in Proc : Pending(q) => AtLeast(c, req[q].man)
        BY <1>2 DEF StoreInv, NothingBelow
      <3>3. AtLeast(m, ext) /\ \A q \in Proc : Pending(q)' => AtLeast(m, req[q].man)
        BY <1>1, <1>2, <3>1, <3>2, NewerIsAbove DEF Typed
      <3>4. \A q \in Proc : Pending(q) => req[q].man # NoManifest
        BY <1>2 DEF StoreInv, NothingBelow
      <3>5. ASSUME NEW v \in disk'["current"]
            PROVE  /\ AtLeast(v, ext)
                   /\ \A q \in Proc : Pending(q)' => req'[q].man # NoManifest /\ AtLeast(v, req'[q].man)
        BY <1>1, <2>1, <3>1, <3>3, <3>4 DEF StoreInv, NothingBelow
      <3> QED  BY <1>1, <3>5 DEF NothingBelow, AtLeast
    <2>7. Knows(p)'
      BY <1>1, <1>2, <1>4, <2>1, <2>2 DEF Knows, SaveKnows, ReadKnows, InTransaction
    <2> QED  BY <1>1, <1>4, <2>2, <2>3, <2>4, <2>5, <2>6, <2>7, StepKeeps DEF InTransaction
  <1> QED  BY <1>3, <1>4 DEF install_signed_v2

\* The installed manifest is read back: commit or roll back.
LEMMA VerifyStep ==
    ASSUME StoreInv, NEW p \in Proc, verify_installed(p)
    PROVE  StoreInv'
  <1>1. /\ UNCHANGED <<live, disk, litter, lock, auth, req, ext>> /\ step[p] = "verify" /\ Typed
        /\ SaveKnows(p) /\ ReadKnows(p)
    BY TypedIsTypeOK DEF verify_installed, StoreInv
  <1>2. ASSUME NEW s \in {"commit", "rollback"}, Goto(p, s) PROVE StoreInv'
    <2>1. step'[p] = s
      BY <1>2, GotoMoves DEF StoreInv, Steps
    <2>2. Knows(p)'
      BY <1>1, <2>1 DEF Knows, SaveKnows, ReadKnows, InTransaction
    <2> QED  BY <1>1, <1>2, <2>2, GoesOnStep DEF Typed, InTransaction
  <1> QED  BY <1>2 DEF verify_installed

\* The sync that commits a save.
LEMMA CommitStep ==
    ASSUME StoreInv, NEW p \in Proc, commit_sync(p)
    PROVE  StoreInv'
  <1>1. /\ UNCHANGED <<live, litter, ext>> /\ step[p] = "commit" /\ Typed
        /\ SaveKnows(p) /\ ReadKnows(p)
    BY TypedIsTypeOK DEF commit_sync, StoreInv
  <1>2. CASE DirectorySynced /\ Return(p, "OK") /\ Observed(p, req[p].man)
    BY <1>1, <1>2, CommittedStep
  <1>3. CASE Goto(p, "rollback") /\ UNCHANGED <<disk, auth, lock, req>>
    <2>1. step'[p] = "rollback"
      BY <1>3, GotoMoves DEF StoreInv, Steps
    <2>2. Knows(p)'
      BY <1>1, <1>3, <2>1 DEF Knows, SaveKnows, ReadKnows, InTransaction
    <2> QED  BY <1>1, <1>3, <2>2, GoesOnStep DEF Typed, InTransaction
  <1> QED  BY <1>2, <1>3 DEF commit_sync

\* The old manifest is renamed back: no value is new to the directory.
LEMMA RollBackStep ==
    ASSUME StoreInv, NEW p \in Proc, roll_back(p)
    PROVE  StoreInv'
  <1> DEFINE c == req[p].ck
             prior == IF c # NoManifest THEN live["previous"] ELSE NoManifest
             gone == IF c # NoManifest THEN NoManifest ELSE live["previous"]
  <1>1. /\ UNCHANGED <<litter, ext>> /\ step[p] = "rollback" /\ Typed /\ SaveKnows(p) /\ ReadKnows(p)
        /\ lock = p /\ req[p].res = "none"
    BY TypedIsTypeOK DEF roll_back, StoreInv, LockHeld, InTransaction, ReadKnows
  <1>2. /\ prior = c /\ c \in disk["current"] /\ c = req[p].from /\ c \in Entry /\ gone \in Entry
        /\ req[p].op = "save" /\ live["previous"] \in disk["previous"]
    BY <1>1, Revisions DEF SaveKnows, Typed, Operations, Slot, StoreInv, LiveOnDisk
  <1>3. CASE Return(p, "EDURABILITY") /\ auth' = [auth EXCEPT ![p].poisoned = TRUE] /\ UNCHANGED <<live, disk>>
    BY <1>1, <1>3, PoisonMoves, FailedStep DEF StoreInv, Typed, Results, InTransaction
  <1>4. CASE /\ live' = [current |-> prior, previous |-> gone]
             /\ disk' = [current |-> disk["current"] \cup {prior},
                         previous |-> disk["previous"] \cup {gone}]
             /\ Goto(p, "rollback_sync") /\ UNCHANGED <<auth, lock, req>>
    <2>1. /\ live' \in [Slot -> Entry] /\ live'["current"] = c /\ live'["previous"] = gone
          /\ disk' \in [Slot -> SUBSET Entry] /\ disk'["current"] = disk["current"]
          /\ disk'["previous"] = disk["previous"] \cup {gone}
      BY <1>1, <1>2, <1>4 DEF Typed, Slot
    <2>2. /\ step' \in [Proc -> Steps] /\ step'[p] = "rollback_sync"
          /\ \A q \in Proc : q # p => step'[q] = step[q]
      BY <1>4, GotoMoves DEF StoreInv, Steps
    <2>3. Typed'
      BY <1>1, <1>4, <2>1, <2>2 DEF Typed
    <2>4. LiveOnDisk'
      BY <1>2, <2>1 DEF LiveOnDisk, Slot
    <2>5. BeforeFirst'
      BY <1>1, <1>2, <1>4, <2>1 DEF StoreInv, BeforeFirst, Begun
    <2>6. Coherent'
      <3>1. \A v \in disk["current"] : Begun => v.rev # 0
        BY <1>1, Revisions DEF Begun, Typed, Slot
      <3>2. gone \in disk["previous"] \/ gone = NoManifest
        BY <1>2
      <3>3. \A v \in disk["previous"] : v.rev = 0 => v = NoManifest
        BY <1>1, Revisions DEF Typed, Slot
      <3> QED  BY <1>2, <2>1, <3>1, <3>2, <3>3, Revisions DEF StoreInv, Coherent, Begun
    <2>7. NothingBelow'
      <3>1. \A q \in Proc : Pending(q)' => Pending(q) /\ req'[q].man = req[q].man
        BY <1>4, <2>2 DEF Pending
      <3> QED  BY <1>1, <2>1, <3>1 DEF StoreInv, NothingBelow, AtLeast
    <2>8. Knows(p)'
      BY <1>1, <1>2, <1>4, <2>1, <2>2 DEF Knows, SaveKnows, ReadKnows, InTransaction
    <2> QED
      BY <1>1, <1>4, <2>2, <2>3, <2>4, <2>5, <2>6, <2>7, <2>8, StepKeeps DEF InTransaction
  <1> QED  BY <1>3, <1>4 DEF roll_back, DirectoryUnchanged

\* The rollback is synced and the save answers EIO, or the authority is poisoned.
LEMMA RollBackSyncStep ==
    ASSUME StoreInv, NEW p \in Proc, sync_roll_back(p)
    PROVE  StoreInv'
  <1>1. /\ UNCHANGED <<live, litter, ext>> /\ step[p] = "rollback_sync" /\ Typed /\ SaveKnows(p)
        /\ ReadKnows(p) /\ lock = p
    BY TypedIsTypeOK DEF sync_roll_back, StoreInv, LockHeld, InTransaction
  <1>2. CASE Return(p, "EDURABILITY") /\ auth' = [auth EXCEPT ![p].poisoned = TRUE] /\ UNCHANGED disk
    BY <1>1, <1>2, PoisonMoves, FailedStep DEF StoreInv, Typed, Results, InTransaction
  <1>3. CASE DirectorySynced /\ Return(p, "EIO") /\ UNCHANGED auth
    <2>1. /\ step' \in [Proc -> Steps] /\ step'[p] = "returned"
          /\ \A q \in Proc : q # p => step'[q] = step[q] /\ req'[q] = req[q]
          /\ req' \in [Proc -> Operations] /\ req'[p].res = "EIO" /\ req'[p].op = req[p].op
          /\ req'[p].ck = req[p].ck /\ req'[p].man = req[p].man
          /\ lock' \in Proc \cup {NoProc}
      BY <1>3, ReturnMoves DEF StoreInv, Results
    <2>2. /\ LiveOnDisk' /\ BeforeFirst' /\ Coherent' /\ NothingBelow'
          /\ disk' \in [Slot -> SUBSET Entry]
      BY <1>1, <1>3, <2>1, DirectorySettles
    <2>3. Typed'
      BY <1>1, <1>3, <2>1, <2>2 DEF Typed
    <2>4. Knows(p)'
      BY <1>1, <2>1 DEF Knows, SaveKnows, ReadKnows, InTransaction
    <2> QED  BY <1>1, <2>1, <2>2, <2>3, <2>4, StepKeeps DEF InTransaction
  <1> QED  BY <1>2, <1>3 DEF sync_roll_back

-----------------------------------------------------------------------------
(* The steps of a recovery.                                                *)

\* The slot recovery takes is at or above the checkpoint.
LEMMA SelectedFits ==
    ASSUME NEW dir, NEW readable, NEW ck, Selected(dir, readable, ck) \in Slot
    PROVE  satisfies_floor(dir[Selected(dir, readable, ck)], ck)
  BY DEF Selected, Slot

LEMMA RecoverStep ==
    ASSUME StoreInv, NEW p \in Proc, recover_select(p)
    PROVE  StoreInv'
  <1>1. /\ UNCHANGED <<live, disk, litter, auth, ext>> /\ step[p] = "check" /\ Typed
        /\ SaveKnows(p) /\ ReadKnows(p) /\ lock = p /\ req[p].op = "recover" /\ req[p].ck = ext
        /\ req[p].res = "none"
    BY TypedIsTypeOK
    DEF recover_select, StoreInv, LockHeld, InTransaction, ReadKnows, RecoveryAlone, Recovering
  <1>2. PICK readable \in Readable :
          LET s == Selected(live, readable, req[p].ck) IN
          \/ /\ s = "current" /\ req' = [req EXCEPT ![p].man = live[s]]
             /\ Goto(p, "resync") /\ UNCHANGED lock
          \/ /\ s = "previous" /\ req' = [req EXCEPT ![p].man = live[s]]
             /\ Goto(p, "promote") /\ UNCHANGED lock
          \/ s \notin Slot /\ Return(p, s)
    BY DEF recover_select
  <1> DEFINE s == Selected(live, readable, req[p].ck)
  <1>3. CASE s \notin Slot /\ Return(p, s)
    <2>1. s \in {"ESTALE", "EIO"}
      BY <1>3 DEF Selected, Slot
    <2> QED  BY <1>1, <1>3, <2>1, FailedStep DEF Typed, Results, InTransaction
  <1>4. ASSUME NEW k \in Slot, s = k, req' = [req EXCEPT ![p].man = live[k]], UNCHANGED lock,
               NEW n \in {"resync", "promote"}, Goto(p, n),
               n = "resync" => k = "current", n = "promote" => k = "previous"
        PROVE  StoreInv'
    <2>1. /\ step' \in [Proc -> Steps] /\ step'[p] = n
          /\ \A q \in Proc : q # p => step'[q] = step[q]
      BY <1>4, GotoMoves DEF StoreInv, Steps
    <2>2. /\ req' \in [Proc -> Operations] /\ req'[p].man = live[k] /\ req'[p].op = "recover"
          /\ req'[p].ck = req[p].ck /\ req'[p].res = "none"
          /\ \A q \in Proc : q # p => req'[q] = req[q]
      <3>1. req' = [req EXCEPT ![p] = [req[p] EXCEPT !.man = live[k]]] /\ req[p] \in Operations
            /\ live[k] \in Entry
        BY <1>1, <1>4 DEF Typed
      <3>2. [req[p] EXCEPT !.man = live[k]] \in Operations
        BY <3>1 DEF Operations
      <3> QED  BY <1>1, <3>1, <3>2 DEF Typed, Operations
    <2>3. satisfies_floor(live[k], ext)
      <3>1. Selected(live, readable, req[p].ck) = k
        BY <1>4
      <3> QED  BY <1>1, <3>1, SelectedFits
    <2>4. Typed'
      BY <1>1, <1>4, <2>1, <2>2 DEF Typed
    <2>5. LiveOnDisk' /\ BeforeFirst' /\ Coherent' /\ NothingBelow'
      BY <1>1, <2>1, <2>2, DirectoryStays
    <2>6. Knows(p)'
      BY <1>1, <1>4, <2>1, <2>2, <2>3
      DEF Knows, SaveKnows, ReadKnows, InTransaction, satisfies_floor, AtLeast
    <2> QED  BY <1>1, <1>4, <2>1, <2>2, <2>4, <2>5, <2>6, StepKeeps DEF InTransaction
  <1>5. CASE s = "current" /\ req' = [req EXCEPT ![p].man = live["current"]]
             /\ Goto(p, "resync") /\ UNCHANGED lock
    BY <1>4, <1>5 DEF Slot
  <1>6. CASE s = "previous" /\ req' = [req EXCEPT ![p].man = live["previous"]]
             /\ Goto(p, "promote") /\ UNCHANGED lock
    BY <1>4, <1>6 DEF Slot
  <1> QED  BY <1>2, <1>3, <1>5, <1>6

\* .previous is promoted: it is above the checkpoint, and one of the values the
\* directory already holds.
LEMMA PromoteStep ==
    ASSUME StoreInv, NEW p \in Proc, promote_previous(p)
    PROVE  StoreInv'
  <1> DEFINE m == req[p].man
  <1>1. /\ UNCHANGED ext /\ step[p] = "promote" /\ Typed /\ SaveKnows(p) /\ ReadKnows(p)
        /\ lock = p /\ req[p].res = "none"
    BY TypedIsTypeOK DEF promote_previous, StoreInv, LockHeld, InTransaction, ReadKnows
  <1>2. /\ m \in Entry /\ m # NoManifest /\ m = live["previous"] /\ AtLeast(m, ext)
        /\ req[p].op = "recover" /\ m \in disk["previous"] /\ req[p].ck # NoManifest
    BY <1>1 DEF ReadKnows, Typed, Operations, StoreInv, LiveOnDisk, Slot, InTransaction
  <1>3. CASE GiveUp(p)
    BY <1>1, <1>3, GiveUpStep DEF InTransaction
  <1>4. CASE ~litter /\ litter' = TRUE /\ UNCHANGED <<live, disk, auth, lock, req, step>>
    <2>1. Typed'
      BY <1>1, <1>4 DEF Typed
    <2>2. LiveOnDisk' /\ BeforeFirst' /\ Coherent' /\ NothingBelow'
      BY <1>1, <1>4, DirectoryStays
    <2>3. Knows(p)'
      BY <1>1, <1>4 DEF Knows, SaveKnows, ReadKnows, AtLeast
    <2> QED  BY <1>1, <1>4, <2>1, <2>2, <2>3, StepKeeps DEF InTransaction
  <1>5. CASE /\ live' = Put(live, "current", m) /\ disk' = MayHold(disk, "current", m)
             /\ litter' = FALSE /\ Goto(p, "promote_check") /\ UNCHANGED <<auth, lock, req>>
    <2>1. /\ live' \in [Slot -> Entry] /\ live'["current"] = m /\ live'["previous"] = live["previous"]
          /\ disk' \in [Slot -> SUBSET Entry] /\ disk'["current"] = disk["current"] \cup {m}
          /\ disk'["previous"] = disk["previous"]
      BY <1>1, <1>2, <1>5 DEF Put, MayHold, Typed, Slot
    <2>2. /\ step' \in [Proc -> Steps] /\ step'[p] = "promote_check"
          /\ \A q \in Proc : q # p => step'[q] = step[q]
      BY <1>5, GotoMoves DEF StoreInv, Steps
    <2>3. Typed'
      BY <1>1, <1>5, <2>1, <2>2 DEF Typed
    <2>4. Begun /\ Begun'
      BY <1>1, <1>2, <2>1 DEF StoreInv, BeforeFirst, Begun
    <2>5. LiveOnDisk' /\ BeforeFirst' /\ Coherent'
      BY <1>2, <2>1, <2>4 DEF StoreInv, LiveOnDisk, BeforeFirst, Coherent, Slot
    <2>6. NothingBelow'
      <3>1. \A q \in Proc : ~Pending(q)'
        BY <1>1, <1>2, <1>5, <2>2 DEF Pending, StoreInv, RecoveryAlone, Recovering
      <3> QED  BY <1>1, <1>2, <2>1, <3>1 DEF StoreInv, NothingBelow, AtLeast
    <2>7. Knows(p)'
      BY <1>1, <1>2, <1>5, <2>1, <2>2 DEF Knows, SaveKnows, ReadKnows, InTransaction
    <2> QED  BY <1>1, <1>5, <2>2, <2>3, <2>5, <2>6, <2>7, StepKeeps DEF InTransaction
  <1> QED  BY <1>3, <1>4, <1>5 DEF promote_previous

LEMMA PromoteVerifyStep ==
    ASSUME StoreInv, NEW p \in Proc, promote_verify(p)
    PROVE  StoreInv'
  <1>1. /\ UNCHANGED <<live, disk, litter, ext>> /\ step[p] = "promote_check" /\ Typed
        /\ SaveKnows(p) /\ ReadKnows(p)
    BY TypedIsTypeOK DEF promote_verify, StoreInv
  <1>2. CASE Return(p, "EDURABILITY") /\ auth' = [auth EXCEPT ![p].poisoned = TRUE]
    BY <1>1, <1>2, PoisonMoves, FailedStep DEF StoreInv, Typed, Results, InTransaction
  <1>3. CASE Goto(p, "promote_sync") /\ UNCHANGED <<auth, lock, req>>
    <2>1. step'[p] = "promote_sync"
      BY <1>3, GotoMoves DEF StoreInv, Steps
    <2>2. Knows(p)'
      BY <1>1, <1>3, <2>1 DEF Knows, SaveKnows, ReadKnows, InTransaction
    <2> QED  BY <1>1, <1>3, <2>2, GoesOnStep DEF Typed, InTransaction
  <1> QED  BY <1>2, <1>3 DEF promote_verify

LEMMA PromoteCommitStep ==
    ASSUME StoreInv, NEW p \in Proc, promote_commit(p)
    PROVE  StoreInv'
  <1>1. UNCHANGED <<live, litter, ext>> /\ step[p] = "promote_sync" /\ Typed
    BY TypedIsTypeOK DEF promote_commit, StoreInv
  <1>2. CASE DirectorySynced /\ Return(p, "OK") /\ Observed(p, req[p].man)
    BY <1>1, <1>2, CommittedStep
  <1>3. CASE Return(p, "EDURABILITY") /\ auth' = [auth EXCEPT ![p].poisoned = TRUE] /\ UNCHANGED disk
    BY <1>1, <1>3, PoisonMoves, FailedStep DEF StoreInv, Typed, Results, InTransaction
  <1> QED  BY <1>2, <1>3 DEF promote_commit

-----------------------------------------------------------------------------
(* The caller and the faults.                                              *)

\* The caller publishes: what was pending is now the external checkpoint.
LEMMA StorePublishStep ==
    ASSUME StoreInv, NEW p \in Proc, CallerPublishes(p)
    PROVE  StoreInv'
  <1>1. UNCHANGED <<live, disk, litter, lock, auth>> /\ step[p] = "returned" /\ Typed
    BY TypedIsTypeOK DEF CallerPublishes, StoreInv
  <1>2. /\ step' \in [Proc -> Steps] /\ step'[p] = "idle"
        /\ \A q \in Proc : q # p => step'[q] = step[q]
    BY GotoMoves DEF CallerPublishes, StoreInv, Steps
  <1>3. /\ req' \in [Proc -> Operations] /\ req'[p] = NoOperation
        /\ \A q \in Proc : q # p => req'[q] = req[q]
    BY <1>1, EmptyTyped DEF CallerPublishes, Typed
  <1>4. ext' = ext \/ (Pending(p) /\ ext' = req[p].man)
    BY <1>1 DEF CallerPublishes, Pending
  <1>5. req[p].man \in Entry
    BY <1>1 DEF Typed, Operations
  <1>6. Typed'
    BY <1>1, <1>2, <1>3, <1>4, <1>5 DEF Typed
  <1>7. LockHeld' /\ LiveOnDisk' /\ Coherent'
    BY <1>1, <1>2, LockFollows DEF StoreInv, LiveOnDisk, Coherent, Begun, InTransaction
  <1>8. BeforeFirst'
    BY <1>1, <1>3, <1>4 DEF StoreInv, BeforeFirst, Begun, Pending, NoOperation
  <1>9. NothingBelow'
    <2>1. \A q \in Proc : Pending(q)' => Pending(q) /\ req'[q].man = req[q].man
      BY <1>2, <1>3 DEF Pending
    <2> QED  BY <1>1, <1>4, <2>1 DEF StoreInv, NothingBelow, AtLeast
  <1>10. ext' = ext \/ \A q \in Proc : q # p => (step[q] # "idle" => req[q].op # "recover")
    BY <1>1 DEF StoreInv, RecoveryAlone, Recovering
  <1>11. RecoveryAlone'
    BY <1>1, <1>2, <1>3, <1>10 DEF StoreInv, RecoveryAlone, Recovering
  <1>12. ASSUME NEW q \in Proc PROVE Knows(q)'
    <2>1. CASE q = p
      BY <1>2, <1>3, <2>1 DEF Knows, SaveKnows, ReadKnows, InTransaction
    <2>2. CASE q # p
      <3>1. ext' = ext \/ step[q] # "promote"
        BY <1>10, <2>2 DEF StoreInv, ReadKnows
      <3> QED  BY <1>1, <1>2, <1>3, <2>2, <3>1, QuietKnows DEF StoreInv, Knows
    <2> QED  BY <2>1, <2>2
  <1> QED
    BY <1>6, <1>7, <1>8, <1>9, <1>11, <1>12, TypedIsTypeOK DEF StoreInv, Knows

\* A process is killed.
LEMMA KillStep ==
    ASSUME StoreInv, NEW p \in Proc, Kill(p)
    PROVE  StoreInv'
  <1>1. UNCHANGED <<live, disk, litter, ext>> /\ Typed
    BY TypedIsTypeOK DEF Kill, StoreInv
  <1>2. /\ step' \in [Proc -> Steps] /\ step'[p] = "idle"
        /\ \A q \in Proc : q # p => step'[q] = step[q]
    BY GotoMoves DEF Kill, StoreInv, Steps
  <1>3. /\ req' \in [Proc -> Operations] /\ req'[p] = NoOperation
        /\ \A q \in Proc : q # p => req'[q] = req[q]
    BY <1>1, EmptyTyped DEF Kill, Typed
  <1>4. /\ auth' \in [Proc -> Authorities]
        /\ \A q \in Proc : auth'[q].trust \in {auth[q].trust, NoManifest}
    BY <1>1, EmptyTyped DEF Kill, Typed, ClosedAuthority
  <1>5. lock' = (IF lock = p THEN NoProc ELSE lock)
    BY DEF Kill
  <1>6. Typed'
    BY <1>1, <1>2, <1>3, <1>4, <1>5 DEF Typed
  <1>7. LiveOnDisk' /\ BeforeFirst' /\ Coherent' /\ NothingBelow'
    BY <1>1, <1>2, <1>3, <1>4, DirectoryStays DEF NoOperation
  <1>8. LockHeld'
    BY <1>2, <1>5, LockFollows DEF StoreInv, InTransaction
  <1>9. RecoveryAlone'
    BY <1>1, <1>2, <1>3 DEF StoreInv, RecoveryAlone, Recovering
  <1>10. Knows(p)'
    BY <1>2, <1>3 DEF Knows, SaveKnows, ReadKnows, InTransaction
  <1>11. \A q \in Proc : Knows(q)'
    BY <1>1, <1>2, <1>3, <1>10, OthersKnow
  <1> QED  BY <1>6, <1>7, <1>8, <1>9, <1>11, TypedIsTypeOK DEF StoreInv, Knows

\* The machine loses power: every process is gone and each entry settles.
LEMMA PowerLossStep ==
    ASSUME StoreInv, PowerLoss
    PROVE  StoreInv'
  <1>1. PICK l \in AfterPowerLoss : live' = l /\ disk' = [s \in Slot |-> {l[s]}]
    BY DEF PowerLoss
  <1>2. /\ litter' \in BOOLEAN /\ lock' = NoProc /\ auth' = [p \in Proc |-> ClosedAuthority]
        /\ step' = [p \in Proc |-> "idle"] /\ req' = [p \in Proc |-> NoOperation] /\ ext' = ext
    BY DEF PowerLoss
  <1>3. Typed
    BY TypedIsTypeOK DEF StoreInv
  <1>4. l["current"] \in disk["current"] /\ l["previous"] \in disk["previous"]
        /\ l \in [Slot -> Entry]
    BY <1>1, <1>3 DEF AfterPowerLoss, Typed, Slot
  <1>5. disk' = [s \in Slot |-> IF s = "current" THEN {l["current"]} ELSE {l["previous"]}]
    BY <1>1 DEF Slot
  <1>6. /\ disk' \in [Slot -> SUBSET Entry]
        /\ disk'["current"] = {l["current"]} /\ disk'["previous"] = {l["previous"]}
        /\ Coherent' /\ (Begun => Begun') /\ (~Begun => disk'["previous"] = {NoManifest})
    BY <1>4, <1>5, Settles DEF StoreInv
  <1>7. Typed'
    BY <1>1, <1>2, <1>3, <1>4, <1>6, EmptyTyped DEF Typed, Steps
  <1>8. LiveOnDisk'
    BY <1>1, <1>6 DEF LiveOnDisk, Slot
  <1>9. BeforeFirst'
    BY <1>2, <1>6 DEF StoreInv, BeforeFirst, ClosedAuthority, NoOperation
  <1>10. NothingBelow'
    BY <1>2, <1>4, <1>6 DEF StoreInv, NothingBelow, Pending, AtLeast
  <1>11. LockHeld' /\ RecoveryAlone' /\ \A p \in Proc : Knows(p)'
    BY <1>2 DEF LockHeld, RecoveryAlone, Recovering, Knows, SaveKnows, ReadKnows, InTransaction,
                NoOperation
  <1> QED
    BY <1>6, <1>7, <1>8, <1>9, <1>10, <1>11, TypedIsTypeOK DEF StoreInv, Knows

-----------------------------------------------------------------------------
(* The invariant.                                                          *)

LEMMA StoreStarts == StoreInit => StoreInv
  <1> SUFFICES ASSUME StoreInit PROVE StoreInv
    OBVIOUS
  <1>1. Typed
    BY EmptyTyped, Revisions DEF StoreInit, Typed, Steps, Slot
  <1>2. LockHeld /\ RecoveryAlone /\ \A p \in Proc : Knows(p)
    BY DEF StoreInit, LockHeld, RecoveryAlone, Recovering, Knows, SaveKnows, ReadKnows,
           InTransaction, NoOperation
  <1>3. LiveOnDisk /\ BeforeFirst /\ Coherent /\ NothingBelow
    BY DEF StoreInit, LiveOnDisk, BeforeFirst, Coherent, NothingBelow, Begun, Slot, AtLeast,
           Pending, NoOperation, ClosedAuthority
  <1> QED  BY <1>1, <1>2, <1>3, TypedIsTypeOK DEF StoreInv, Knows

LEMMA StoreInductive == StoreInv /\ [StoreNext]_storeVars => StoreInv'
  <1> SUFFICES ASSUME StoreInv, [StoreNext]_storeVars PROVE StoreInv'
    OBVIOUS
  <1>1. CASE UNCHANGED storeVars
    <2>1. LockHeld' /\ LiveOnDisk' /\ BeforeFirst' /\ Coherent' /\ NothingBelow'
      BY <1>1 DEF StoreInv, LockHeld, LiveOnDisk, BeforeFirst, Coherent, NothingBelow, Begun,
                  Pending, AtLeast, storeVars
    <2>2. RecoveryAlone' /\ \A p \in Proc : Knows(p)'
      BY <1>1 DEF StoreInv, RecoveryAlone, Recovering, Knows, SaveKnows, ReadKnows, AtLeast,
                  storeVars
    <2>3. StoreTypeOK'
      BY <1>1 DEF StoreInv, StoreTypeOK, storeVars
    <2> QED  BY <2>1, <2>2, <2>3 DEF StoreInv, Knows
  <1>2. ASSUME NEW p \in Proc, authority_open_v2(p) \/ authority_destroy(p) \/ Call(p)
                               \/ BindRefused(p) \/ LockDirectory(p)
                               \/ cleanup_internal_artifacts(p) \/ manifest_load_v2(p)
        PROVE  StoreInv'
    BY <1>2, OpenStep, CallStep, RefusedStep, StoreLockStep, CleanupStep, LoadStep
  <1>3. ASSUME NEW p \in Proc, save_check(p) \/ sync_existing(p) \/ write_temporary(p)
                               \/ install_previous(p) \/ sync_previous(p) \/ install_signed_v2(p)
                               \/ verify_installed(p) \/ commit_sync(p) \/ roll_back(p)
                               \/ sync_roll_back(p)
        PROVE  StoreInv'
    BY <1>3, SaveCheckStep, ResyncStep, TemporaryStep, BackupStep, BackupSyncStep, InstallStep,
       VerifyStep, CommitStep, RollBackStep, RollBackSyncStep
  <1>4. ASSUME NEW p \in Proc, recover_select(p) \/ promote_previous(p) \/ promote_verify(p)
                               \/ promote_commit(p) \/ CallerPublishes(p) \/ Kill(p)
        PROVE  StoreInv'
    BY <1>4, RecoverStep, PromoteStep, PromoteVerifyStep, PromoteCommitStep, StorePublishStep, KillStep
  <1> QED  BY <1>1, <1>2, <1>3, <1>4, PowerLossStep DEF StoreNext

LEMMA StoreInvariant == StoreSpec => []StoreInv
  <1> QED  BY StoreStarts, StoreInductive, PTL DEF StoreSpec

-----------------------------------------------------------------------------
(* What the invariant gives.                                               *)

LEMMA InvRecovers == StoreInv => PublishedIsRecoverable
  <1> SUFFICES ASSUME StoreInv, ext # NoManifest, NEW l \in AfterPowerLoss
               PROVE  Selected(l, Slot, ext) \in Slot
    BY DEF PublishedIsRecoverable
  <1>1. l["current"] \in disk["current"] /\ l["previous"] \in disk["previous"]
    BY DEF AfterPowerLoss
  <1>2. satisfies_floor(l["current"], ext)
    BY <1>1 DEF StoreInv, NothingBelow, AtLeast
  <1>3. l["previous"].rev = l["current"].rev => l["previous"] = l["current"]
    BY <1>1 DEF StoreInv, BeforeFirst, Coherent
  <1> QED  BY <1>2, <1>3 DEF Selected, Slot

\* Manifests are not lost: whatever a power loss leaves of the directory, recovery
\* with the published checkpoint takes one of the two files (manifest_recover_v2,
\* install_previous's own sync before the rename, roll_back).
THEOREM RecoverySound == StoreSpec => []PublishedIsRecoverable
  <1> QED  BY StoreInvariant, InvRecovers, PTL

\* The store stays well typed, for every number of processes and every set of manifests
\* (persistence.cpp, protocol 2).
THEOREM StoreTypes == StoreSpec => []StoreTypeOK
  <1>1. StoreInv => StoreTypeOK
    BY DEF StoreInv
  <1> QED  BY <1>1, StoreInvariant, PTL

\* A step of a process.
StoreStep(p) ==
    \/ authority_open_v2(p) \/ authority_destroy(p) \/ Call(p)
    \/ BindRefused(p) \/ LockDirectory(p) \/ cleanup_internal_artifacts(p)
    \/ manifest_load_v2(p)
    \/ save_check(p) \/ sync_existing(p) \/ write_temporary(p)
    \/ install_previous(p) \/ sync_previous(p) \/ install_signed_v2(p)
    \/ verify_installed(p) \/ commit_sync(p)
    \/ roll_back(p) \/ sync_roll_back(p)
    \/ recover_select(p) \/ promote_previous(p)
    \/ promote_verify(p) \/ promote_commit(p)
    \/ CallerPublishes(p) \/ Kill(p)

\* A call of one process does not touch the calls of the others.
LEMMA OwnCall ==
    ASSUME StoreTypeOK, NEW q \in Proc, NEW p \in Proc, p # q,
           StoreStep(q)
    PROVE  req'[p] = req[p]
  <1>1. ASSUME NEW r, Return(q, r) PROVE req'[p] = req[p]
    BY <1>1 DEF StoreTypeOK, Return
  <1>2. GiveUp(q) => req'[p] = req[p]
    BY <1>1 DEF GiveUp
  <1>3. CASE authority_open_v2(q) \/ authority_destroy(q) \/ Call(q) \/ LockDirectory(q)
             \/ CallerPublishes(q) \/ Kill(q)
    BY <1>3 DEF StoreTypeOK, authority_open_v2, authority_destroy, Call, LockDirectory,
                CallerPublishes, Kill
  <1>4. CASE BindRefused(q) \/ cleanup_internal_artifacts(q) \/ manifest_load_v2(q)
    BY <1>1, <1>4 DEF StoreTypeOK, BindRefused, cleanup_internal_artifacts, manifest_load_v2
  <1>5. CASE save_check(q) \/ sync_existing(q) \/ verify_installed(q) \/ commit_sync(q)
             \/ roll_back(q) \/ sync_roll_back(q)
    BY <1>1, <1>5 DEF save_check, sync_existing, verify_installed, commit_sync, roll_back,
                      sync_roll_back
  <1>6. CASE write_temporary(q) \/ install_previous(q) \/ sync_previous(q) \/ install_signed_v2(q)
             \/ promote_previous(q)
    BY <1>2, <1>6 DEF write_temporary, install_previous, sync_previous, install_signed_v2,
                      promote_previous
  <1>7. CASE recover_select(q) \/ promote_verify(q) \/ promote_commit(q)
    BY <1>1, <1>7 DEF StoreTypeOK, recover_select, promote_verify, promote_commit
  <1> QED  BY <1>3, <1>4, <1>5, <1>6, <1>7 DEF StoreStep

\* What a failed save has not touched is what it found.
LEMMA Untouched ==
    ASSUME StoreInv, NEW p \in Proc, req[p].op = "save", UNCHANGED live,
           \/ UNCHANGED disk /\ step[p] \in {"check", "resync", "temp", "backup", "prior_sync",
                                             "install"}
           \/ DirectorySynced /\ step[p] = "rollback_sync"
    PROVE  live'["current"] = req[p].from /\ disk'["current"] \subseteq req[p].fromDisk
  BY DEF StoreInv, SaveKnows, DirectorySynced, InTransaction, Slot

\* The steps that answer nothing.
LEMMA QuietSteps ==
    ASSUME StoreTypeOK, NEW p \in Proc,
           authority_open_v2(p) \/ authority_destroy(p) \/ Call(p) \/ LockDirectory(p)
           \/ CallerPublishes(p) \/ Kill(p)
    PROVE  req'[p].res \in {"none", req[p].res}
  <1>1. NoOperation \in Operations /\ NoOperation.res = "none"
    BY EmptyTyped DEF NoOperation
  <1>2. req \in [Proc -> Operations] /\ live["current"] \in Entry /\ disk["current"] \in SUBSET Entry
        /\ ext \in Entry /\ auth[p].trust \in Entry
    BY DEF StoreTypeOK, Operations, Slot
  <1>3. CASE Call(p)
    <2>1. PICK op \in Ops, ck \in {ext, auth[p].trust}, m \in Manifest \cup {NoManifest} :
            req' = [req EXCEPT ![p] = [NoOperation EXCEPT !.op = op, !.ck = ck,
                                                          !.seen = ext, !.man = m]]
      BY <1>3 DEF Call
    <2>2. req'[p] = [NoOperation EXCEPT !.op = op, !.ck = ck, !.seen = ext, !.man = m]
      BY <1>2, <2>1
    <2> QED  BY <1>1, <2>2 DEF Operations
  <1>4. CASE LockDirectory(p)
    <2>1. req' = [req EXCEPT ![p] = [req[p] EXCEPT !.from = live["current"],
                                                   !.fromDisk = disk["current"]]]
      BY <1>2, <1>4 DEF LockDirectory
    <2>2. req'[p] = [req[p] EXCEPT !.from = live["current"], !.fromDisk = disk["current"]]
      BY <1>2, <2>1
    <2> QED  BY <1>2, <2>2 DEF Operations
  <1>5. CASE authority_open_v2(p) \/ authority_destroy(p)
    BY <1>5 DEF authority_open_v2, authority_destroy
  <1>6. CASE CallerPublishes(p) \/ Kill(p)
    BY <1>1, <1>2, <1>6 DEF CallerPublishes, Kill
  <1> QED  BY <1>3, <1>4, <1>5, <1>6

\* A step of p that makes its save answer EIO.
LEMMA EioStep ==
    ASSUME StoreInv, NEW p \in Proc, req[p].op = "save", req[p].res # "EIO", req'[p].res = "EIO",
           StoreStep(p)
    PROVE  live'["current"] = req[p].from /\ disk'["current"] \subseteq req[p].fromDisk
  <1>1. StoreTypeOK /\ SaveKnows(p) /\ ReadKnows(p)
    BY DEF StoreInv
  <1>2. ASSUME NEW r \in Results \ {"EIO"}, Return(p, r) PROVE FALSE
    BY <1>1, <1>2, ReturnMoves
  <1>3. CASE authority_open_v2(p) \/ authority_destroy(p) \/ Call(p) \/ LockDirectory(p)
             \/ CallerPublishes(p) \/ Kill(p)
    BY <1>1, <1>3, QuietSteps
  <1>4. CASE BindRefused(p)
    BY <1>2, <1>4 DEF BindRefused, bind_v2_call, Results
  <1>5. CASE cleanup_internal_artifacts(p)
    BY <1>5, Untouched DEF cleanup_internal_artifacts
  <1>6. CASE manifest_load_v2(p) \/ recover_select(p)
    BY <1>6 DEF manifest_load_v2, recover_select
  <1>7. CASE save_check(p)
    BY <1>7, Untouched DEF save_check
  <1>8. CASE sync_existing(p)
    <2>1. CASE DirectorySynced /\ Return(p, "OK")
      BY <1>2, <2>1 DEF Results
    <2>2. CASE UNCHANGED disk
      BY <1>8, <2>2, Untouched DEF sync_existing
    <2> QED  BY <1>8, <2>1, <2>2 DEF sync_existing
  <1>9. CASE write_temporary(p) \/ install_previous(p) \/ sync_previous(p) \/ install_signed_v2(p)
    <2>1. CASE UNCHANGED req
      BY <2>1
    <2>2. CASE GiveUp(p)
      BY <1>9, <2>2, Untouched
      DEF GiveUp, write_temporary, install_previous, sync_previous, install_signed_v2
    <2> QED
      BY <1>9, <2>1, <2>2 DEF write_temporary, install_previous, sync_previous, install_signed_v2
  <1>10. CASE verify_installed(p) \/ commit_sync(p) \/ roll_back(p)
    BY <1>2, <1>10 DEF verify_installed, commit_sync, roll_back, Results
  <1>11. CASE sync_roll_back(p)
    <2>1. CASE Return(p, "EDURABILITY")
      BY <1>2, <2>1 DEF Results
    <2>2. CASE DirectorySynced /\ Return(p, "EIO")
      BY <1>11, <2>2, Untouched DEF sync_roll_back
    <2> QED  BY <1>11, <2>1, <2>2 DEF sync_roll_back
  <1>12. CASE promote_previous(p) \/ promote_verify(p) \/ promote_commit(p)
    BY <1>1, <1>12 DEF promote_previous, promote_verify, promote_commit, ReadKnows
  <1> QED
    BY <1>3, <1>4, <1>5, <1>6, <1>7, <1>8, <1>9, <1>10, <1>11, <1>12 DEF StoreStep

\* A manifest at the floor of the published checkpoint is not older than it.
LEMMA FloorIsNotOlder ==
    ASSUME NEW m \in Entry, NEW e \in Entry, m # NoManifest, AtLeast(m, e)
    PROVE  m = e \/ m.rev > e.rev
  BY Revisions DEF AtLeast, satisfies_floor

\* A step of p that makes its call answer OK.
LEMMA OkStep ==
    ASSUME StoreInv, NEW p \in Proc, req[p].res # "OK", req'[p].res = "OK",
           StoreStep(p)
    PROVE  req'[p].man = ext \/ req'[p].man.rev > ext.rev
  <1>1. StoreTypeOK /\ SaveKnows(p) /\ ReadKnows(p) /\ Typed
    BY TypedIsTypeOK DEF StoreInv
  <1>2. ASSUME NEW r \in Results \ {"OK"}, Return(p, r) PROVE FALSE
    BY <1>1, <1>2, ReturnMoves
  <1>3. \A m \in Entry : m = live["current"] /\ m # NoManifest => m = ext \/ m.rev > ext.rev
    BY <1>1, FloorIsNotOlder DEF StoreInv, LiveOnDisk, NothingBelow, Typed, Slot
  <1>4. CASE authority_open_v2(p) \/ authority_destroy(p) \/ Call(p) \/ LockDirectory(p)
             \/ CallerPublishes(p) \/ Kill(p)
    BY <1>1, <1>4, QuietSteps
  <1>5. CASE BindRefused(p)
    BY <1>2, <1>5 DEF BindRefused, bind_v2_call, Results
  <1>6. CASE cleanup_internal_artifacts(p)
    BY <1>2, <1>6 DEF cleanup_internal_artifacts, Results
  <1>7. CASE manifest_load_v2(p)
    <2> DEFINE m == live["current"]
    <2>1. CASE /\ satisfies_floor(m, req[p].ck)
               /\ req' = [req EXCEPT ![p].res = "OK", ![p].man = m]
      <3>1. m \in Entry /\ m # NoManifest
        BY <1>1, <2>1 DEF Typed, Slot, satisfies_floor
      <3>2. req'[p].man = m
        BY <1>1, <2>1, <3>1 DEF Typed, Operations
      <3> QED  BY <1>3, <3>1, <3>2
    <2>2. CASE ~satisfies_floor(m, req[p].ck) /\ Return(p, IF m = NoManifest THEN "EIO" ELSE "ESTALE")
      BY <1>2, <2>2 DEF Results
    <2>3. CASE Return(p, "EIO")
      BY <1>2, <2>3 DEF Results
    <2> QED  BY <1>7, <2>1, <2>2, <2>3 DEF manifest_load_v2
  <1>8. CASE save_check(p)
    BY <1>2, <1>8 DEF save_check, SaveVerdict, Results, Steps
  <1>9. CASE write_temporary(p) \/ install_previous(p) \/ sync_previous(p) \/ install_signed_v2(p)
             \/ promote_previous(p)
    BY <1>2, <1>9 DEF GiveUp, write_temporary, install_previous, sync_previous, install_signed_v2,
                      promote_previous, Results
  <1>10. CASE verify_installed(p) \/ roll_back(p) \/ sync_roll_back(p) \/ promote_verify(p)
    BY <1>2, <1>10 DEF verify_installed, roll_back, sync_roll_back, promote_verify, Results
  <1>11. CASE recover_select(p)
    <2>1. PICK readable \in Readable :
            \/ \E m : req' = [req EXCEPT ![p].man = m]
            \/ /\ Selected(live, readable, req[p].ck) \notin Slot
               /\ Return(p, Selected(live, readable, req[p].ck))
      BY <1>11 DEF recover_select
    <2>2. CASE \E m : req' = [req EXCEPT ![p].man = m]
      BY <1>1, <2>2 DEF Typed, Operations
    <2>3. CASE /\ Selected(live, readable, req[p].ck) \notin Slot
               /\ Return(p, Selected(live, readable, req[p].ck))
      BY <1>2, <2>3 DEF Selected, Slot, Results
    <2> QED  BY <2>1, <2>2, <2>3
  <1>12. CASE sync_existing(p) \/ commit_sync(p) \/ promote_commit(p)
    <2>1. CASE Return(p, "OK")
      <3>1. req'[p].man = req[p].man
        BY <1>1, <2>1, ReturnMoves DEF Results
      <3>2. req[p].man = live["current"] /\ req[p].man # NoManifest /\ req[p].man \in Entry
        BY <1>1, <1>12 DEF sync_existing, commit_sync, promote_commit, ReadKnows, Typed, Operations
      <3> QED  BY <1>3, <3>1, <3>2
    <2>2. CASE ~Return(p, "OK")
      BY <1>2, <1>12, <2>2 DEF sync_existing, commit_sync, promote_commit, Results
    <2> QED  BY <2>1, <2>2
  <1> QED
    BY <1>4, <1>5, <1>6, <1>7, <1>8, <1>9, <1>10, <1>11, <1>12 DEF StoreStep

LEMMA StoreStepKeeps ==
    ASSUME StoreInv, [StoreNext]_storeVars, NEW p \in Proc
    PROVE  /\ (lock = p /\ req[p].op = "save" /\ req[p].res # "EIO" /\ req'[p].res = "EIO")
                => live'["current"] = req[p].from /\ disk'["current"] \subseteq req[p].fromDisk
           /\ (req[p].res # "OK" /\ req'[p].res = "OK")
                => req'[p].man = ext \/ req'[p].man.rev > ext.rev
  <1>1. CASE req'[p].res \notin {"EIO", "OK"} \/ req'[p] = req[p]
    BY <1>1
  <1>2. CASE PowerLoss
    BY <1>2 DEF PowerLoss, NoOperation
  <1>3. CASE \E q \in Proc \ {p} : StoreStep(q)
    BY <1>1, <1>3, OwnCall DEF StoreInv
  <1>4. CASE StoreStep(p)
    BY <1>4, EioStep, OkStep
  <1>5. CASE UNCHANGED storeVars
    BY <1>1, <1>5 DEF storeVars
  <1> QED  BY <1>2, <1>3, <1>4, <1>5 DEF StoreNext, StoreStep

\* The manifest never goes back: a save that answers EIO left the old one, also for
\* a power loss, and no call hands out one older than the published checkpoint,
\* although it waited for the lock since its caller read it.
THEOREM NeverRegresses == StoreSpec => ManifestNeverRegresses
  <1> DEFINE
      Kept == \A p \in Proc :
          (lock = p /\ req[p].op = "save" /\ req[p].res # "EIO" /\ req'[p].res = "EIO")
              => /\ live'["current"] = req[p].from
                 /\ disk'["current"] \subseteq req[p].fromDisk
      NotOlder == \A p \in Proc :
          (req[p].res # "OK" /\ req'[p].res = "OK")
              => req'[p].man = ext \/ req'[p].man.rev > ext.rev
  <1>1. StoreInv /\ [StoreNext]_storeVars => Kept /\ NotOlder
    BY StoreStepKeeps
  <1>2. StoreSpec => [][Kept]_storeVars /\ [][NotOlder]_storeVars
    <2> HIDE DEF Kept, NotOlder
    <2> QED  BY <1>1, StoreInvariant, PTL DEF StoreSpec
  <1> QED
    BY <1>2 DEF ManifestNeverRegresses, EioKeepsOldManifest, NothingOlderThanPublished

-----------------------------------------------------------------------------
(* The commissioning sessions.  The envelope holds because the energy is    *)
(* zero until the drive may move and every moving sample is admitted by the *)
(* limits; the two stops are independent because the phases hand over what  *)
(* each has found (StopsHandOver) and the least position since the first    *)
(* stop is at or below where the reapproach began.                          *)

RecipeTyped ==
    /\ recipe \in Recipe
    /\ pos \in [start : Int, phase : Int, last : Int]
    /\ elapsed \in [phase : Nat, dwell : Nat]
    /\ contact \in [sum : Int, n : Nat, second : BOOLEAN]
    /\ stops \in [first : [sum : Int, n : Nat], second : [sum : Int, n : Nat]]
    /\ energy \in Int
    /\ lowest \in [from : Int, at : Int]

\* A session that accepted its recipe runs a valid one, and does no work before
\* the drive may move.
RecipeAccepted ==
    /\ phase \notin {"none", "refused", "destroyed", "ABORT"} => valid_recipe(recipe)
    /\ phase \in {"none", "PRECHECK", "WAIT"} => energy = 0

Found(m) == m.n >= recipe.minimum_contact_samples
Beyond(m) == m.sum >= (lowest.at + recipe.minimum_contact_travel) * m.n
CameBack == lowest.at <= lowest.from - recipe.retreat_distance

\* What the session has when it enters a phase, it keeps.
StopsHandOver ==
    LET later == {"REPEATABILITY", "CANDIDATE", "REVIEW", "COMMIT"} IN
    /\ phase \in {"RETREAT", "REAPPROACH"} \cup later => Found(stops.first)
    /\ phase = "RETREAT" => lowest.from = pos.phase
    /\ phase \in {"REAPPROACH"} \cup later => CameBack
    /\ phase = "REAPPROACH" =>
         /\ lowest.at <= pos.phase
         /\ contact.second => Beyond(contact)
    /\ phase \in later => Found(stops.second) /\ Beyond(stops.second)
    /\ phase \in later \ {"REPEATABILITY"} =>
         Agree(stops.first, stops.second, recipe.repeatability_tolerance)

RecipeInv == RecipeTyped /\ RecipeAccepted /\ InsideEnvelope /\ StopsHandOver

Means == [sum : Int, n : Nat]
ManualPhases == {"none", "REFERENCE_1", "REFERENCE_2", "CANDIDATE", "REVIEW", "COMMITTED",
                 "ABORTED", "refused", "destroyed"}
ManualRecord ==
    [at : ManualPhases, opt : ManualOption, acc : Means, lo : Int, hi : Int, dwell : Int,
     means : [first : Means, second : Means], a : Int, b : Int]
ManualTyped == manual \in ManualRecord

\* A candidate is what its two means give.
CandidateIsComputed ==
    manual.at \in {"CANDIDATE", "REVIEW", "COMMITTED"} =>
        /\ manual.a = CandidateSign(manual.means, manual.opt) /\ manual.a # 0
        /\ manual.b = CandidateOffset(manual.means, manual.opt, manual.a)

ManualInv == ManualTyped /\ CandidateIsComputed

\* The recipe's fields are numbers.
LEMMA RecipeFields ==
    ASSUME RecipeTyped
    PROVE  /\ recipe.minimum_contact_samples \in Int /\ recipe.contact_dwell \in Int
           /\ recipe.minimum_contact_travel \in Int /\ recipe.maximum_approach_travel \in Int
           /\ recipe.maximum_approach_time \in Int /\ recipe.maximum_retreat_time \in Int
           /\ recipe.maximum_contact_energy \in Int /\ recipe.retreat_distance \in Int
           /\ recipe.repeatability_tolerance \in Int
  BY CommissionConstants DEF RecipeTyped

\* A mean whose samples all lie beyond a bound lies beyond it.
LEMMA MeanBeyond ==
    ASSUME NEW sum \in Int, NEW n \in Nat, NEW bound \in Int, NEW q \in Int,
           sum >= bound * n, q >= bound
    PROVE  sum + q >= bound * (n + 1)
  OBVIOUS

\* A sample counted, and time passed, as the phases write them.
Sampled(m, q) == [m EXCEPT !.sum = @ + q, !.n = @ + 1]
LEMMA SampleCounted ==
    ASSUME NEW m \in [sum : Int, n : Nat, second : BOOLEAN], NEW q \in Int
    PROVE  /\ Sampled(m, q) \in [sum : Int, n : Nat, second : BOOLEAN]
           /\ Sampled(m, q).sum = m.sum + q /\ Sampled(m, q).n = m.n + 1
           /\ Sampled(m, q).second = m.second
  <1> DEFINE g(a, b) == [m EXCEPT !.sum = a, !.n = b]
  <1>1. m.sum + q \in Int /\ m.n + 1 \in Nat
    OBVIOUS
  <1>2. ASSUME NEW a \in Int, NEW b \in Nat
        PROVE  /\ g(a, b) \in [sum : Int, n : Nat, second : BOOLEAN]
               /\ g(a, b).sum = a /\ g(a, b).n = b /\ g(a, b).second = m.second
    OBVIOUS
  <1> HIDE DEF g
  <1>3. LET c == g(m.sum + q, m.n + 1) IN
        /\ c \in [sum : Int, n : Nat, second : BOOLEAN]
        /\ c.sum = m.sum + q /\ c.n = m.n + 1 /\ c.second = m.second
    BY <1>1, <1>2
  <1> QED  BY <1>3 DEF g, Sampled

LEMMA TimePassed ==
    ASSUME NEW e \in [phase : Nat, dwell : Nat], NEW dt \in Nat
    PROVE  /\ [e EXCEPT !.phase = @ + dt] \in [phase : Nat, dwell : Nat]
           /\ [phase |-> e.phase + dt, dwell |-> 0] \in [phase : Nat, dwell : Nat]
           /\ [phase |-> e.phase + dt, dwell |-> e.dwell + dt]
                \in [phase : Nat, dwell : Nat]
  <1>1. e.phase \in Nat /\ e.dwell \in Nat
    OBVIOUS
  <1>2. [e EXCEPT !.phase = @ + dt] = [phase |-> e.phase + dt, dwell |-> e.dwell]
    OBVIOUS
  <1> QED  BY <1>1, <1>2

\* Whatever fails, aborts or destroys the session keeps nothing to be believed.
LEMMA EndKeepsRecipe ==
    ASSUME RecipeInv, phase' \in {"ABORT", "refused", "destroyed"},
           UNCHANGED <<recipe, pos, elapsed, contact, stops, energy, lowest>>
    PROVE  RecipeInv'
  BY DEF RecipeInv, RecipeTyped, RecipeAccepted, InsideEnvelope, StopsHandOver, Moving

\* PRECHECK and WAIT.
LEMMA StartKeepsRecipe ==
    ASSUME RecipeInv, NEW q \in Angle, step_precheck(q) \/ step_wait(q)
    PROVE  RecipeInv'
  <1>1. q \in Int
    BY CommissionConstants
  <1>2. CASE step_precheck(q)
    BY <1>2 DEF step_precheck, Step, RecipeInv, RecipeTyped, RecipeAccepted,
                InsideEnvelope, StopsHandOver, Moving, valid_recipe
  <1>3. CASE step_wait(q)
    <2>1. /\ phase = "WAIT" /\ phase' \in {"WAIT", "APPROACH"}
          /\ UNCHANGED <<recipe, contact, stops, energy, lowest>>
          /\ \/ pos' = [start |-> q, phase |-> q, last |-> q] /\ elapsed' = NoTime
             \/ phase' = "WAIT" /\ UNCHANGED <<pos, elapsed>>
      BY <1>3 DEF step_wait, Step
    <2>2. RecipeTyped'
      BY <1>1, <2>1 DEF RecipeInv, RecipeTyped, NoTime
    <2>3. valid_recipe(recipe) /\ energy = 0
      BY <2>1 DEF RecipeInv, RecipeAccepted
    <2>4. InsideEnvelope'
      BY <1>1, <2>1, <2>3, RecipeFields
      DEF InsideEnvelope, Moving, RecipeInv, valid_recipe
    <2> QED  BY <2>1, <2>2, <2>3, <2>4 DEF RecipeInv, RecipeAccepted, StopsHandOver
  <1> QED  BY <1>2, <1>3

\* A sample that passes the limits stays inside the envelope and in its type.
LEMMA LimitsBoundEnergy ==
    ASSUME RecipeTyped, NEW speed \in {0, 1}, NEW torque \in {0, 1}, NEW dt \in Gap,
           LimitsHold(speed, torque, dt), energy' = energy + Work(speed, torque, dt)
    PROVE  /\ energy' \in Int /\ energy' <= recipe.maximum_contact_energy
           /\ dt \in Nat
  <1>1. dt \in Nat
    BY CommissionConstants
  <1>2. Work(speed, torque, dt) \in Nat
    BY <1>1 DEF Work
  <1> QED  BY <1>1, <1>2, RecipeFields DEF LimitsHold, RecipeTyped

\* A moving sample keeps the envelope and lowers the least position at most to itself.
LEMMA MovedKeepsEnvelope ==
    ASSUME RecipeInv, NEW q \in Angle, NEW speed \in {0, 1}, NEW torque \in {0, 1},
           NEW dt \in Gap, Moved(q, speed, torque, dt)
    PROVE  /\ q \in Int /\ dt \in Nat /\ energy' \in Int
           /\ pos' = [pos EXCEPT !.last = q]
           /\ pos' \in [start : Int, phase : Int, last : Int]
           /\ lowest' \in [from : Int, at : Int]
           /\ lowest'.from = lowest.from /\ lowest'.at <= lowest.at
           /\ lowest'.at \in {q, lowest.at} /\ (q >= lowest.at => lowest'.at = lowest.at)
           /\ recipe' = recipe /\ InsideEnvelope'
  <1>1. q \in Int
    BY CommissionConstants
  <1>2. energy' \in Int /\ energy' <= recipe.maximum_contact_energy /\ dt \in Nat
    BY LimitsBoundEnergy DEF Moved, RecipeInv
  <1>3. /\ pos' = [pos EXCEPT !.last = q] /\ recipe' = recipe
        /\ lowest' = [lowest EXCEPT !.at = IF q < @ THEN q ELSE @]
        /\ q - pos.start \in 0 .. recipe.maximum_approach_travel
    BY DEF Moved, GlobalTravel
  <1>4. /\ pos' \in [start : Int, phase : Int, last : Int]
        /\ pos'.last = q /\ pos'.start = pos.start
        /\ lowest' \in [from : Int, at : Int] /\ lowest'.from = lowest.from
        /\ lowest'.at = IF q < lowest.at THEN q ELSE lowest.at
        /\ lowest.at \in Int
    BY <1>1, <1>3 DEF RecipeInv, RecipeTyped
  <1>5. InsideEnvelope'
    BY <1>2, <1>3, <1>4 DEF InsideEnvelope
  <1> QED  BY <1>1, <1>2, <1>3, <1>4, <1>5

\* APPROACH.
LEMMA ApproachKeepsRecipe ==
    ASSUME RecipeInv, NEW q \in Angle, NEW speed \in {0, 1}, NEW torque \in {0, 1},
           NEW dt \in Gap, step_approach(q, speed, torque, dt)
    PROVE  RecipeInv'
  <1>1. CASE FailSession
    BY <1>1, EndKeepsRecipe DEF FailSession
  <1>2. CASE ~FailSession
    <2>1. /\ phase = "APPROACH" /\ phase' \in {"APPROACH", "CONTACT_DWELL"}
          /\ Moved(q, speed, torque, dt)
          /\ contact' \in {contact, [sum |-> q, n |-> 1, second |-> FALSE]}
          /\ elapsed' \in {[phase |-> elapsed.phase + dt, dwell |-> 0],
                           [elapsed EXCEPT !.phase = @ + dt]}
          /\ UNCHANGED stops
      BY <1>2 DEF step_approach, Step
    <2>2. /\ q \in Int /\ dt \in Nat /\ energy' \in Int
          /\ pos' \in [start : Int, phase : Int, last : Int]
          /\ lowest' \in [from : Int, at : Int]
          /\ recipe' = recipe /\ InsideEnvelope'
      BY <2>1, MovedKeepsEnvelope
    <2>3. /\ contact' \in [sum : Int, n : Nat, second : BOOLEAN]
          /\ elapsed' \in [phase : Nat, dwell : Nat]
      <3>1. /\ contact \in [sum : Int, n : Nat, second : BOOLEAN]
            /\ elapsed \in [phase : Nat, dwell : Nat]
        BY DEF RecipeInv, RecipeTyped
      <3>2. [sum |-> q, n |-> 1, second |-> FALSE]
              \in [sum : Int, n : Nat, second : BOOLEAN]
        BY <2>2
      <3> QED  BY <2>1, <2>2, <3>1, <3>2, TimePassed
    <2>4. RecipeTyped'
      BY <2>1, <2>2, <2>3 DEF RecipeInv, RecipeTyped
    <2> QED  BY <2>1, <2>2, <2>4 DEF RecipeInv, RecipeAccepted, StopsHandOver
  <1> QED  BY <1>1, <1>2

\* CONTACT_DWELL: the first stop is found, and the retreat begins where it ended.
LEMMA DwellKeepsRecipe ==
    ASSUME RecipeInv, NEW q \in Angle, NEW speed \in {0, 1}, NEW torque \in {0, 1},
           NEW dt \in Gap, step_contact_dwell(q, speed, torque, dt)
    PROVE  RecipeInv'
  <1>1. CASE FailSession
    BY <1>1, EndKeepsRecipe DEF FailSession
  <1>2. CASE ~FailSession
    <2> DEFINE c == Sampled(contact, q)
    <2>1. /\ phase = "CONTACT_DWELL" /\ phase' \in {"RETREAT", "CONTACT_DWELL"}
          /\ LimitsHold(speed, torque, dt)
          /\ energy' = energy + Work(speed, torque, dt)
          /\ GlobalTravel(q) <= recipe.maximum_approach_travel
          /\ contact_evidence(GlobalTravel(q), speed, torque)
          /\ contact' = c /\ UNCHANGED recipe
          /\ \/ pos' = [pos EXCEPT !.last = q, !.phase = q]
             \/ pos' = [pos EXCEPT !.last = q]
      BY <1>2, Zenon DEF step_contact_dwell, Step, Sampled
    <2>2. q \in Int /\ dt \in Nat
      BY CommissionConstants
    <2>3. energy' \in Int /\ energy' <= recipe.maximum_contact_energy
      BY <2>1, LimitsBoundEnergy DEF RecipeInv
    <2>4. c \in [sum : Int, n : Nat, second : BOOLEAN]
      <3>1. contact \in [sum : Int, n : Nat, second : BOOLEAN]
        BY DEF RecipeInv, RecipeTyped
      <3> QED  BY <2>2, <3>1, SampleCounted
    <2>5. valid_recipe(recipe)
      BY <2>1 DEF RecipeInv, RecipeAccepted
    <2>6. InsideEnvelope'
      <3>1. pos'.last = q /\ pos'.start = pos.start
        BY <2>1 DEF RecipeInv, RecipeTyped
      <3> QED
        BY <2>1, <2>2, <2>3, <2>5, <3>1, RecipeFields
        DEF InsideEnvelope, GlobalTravel, contact_evidence, valid_recipe, RecipeInv,
            RecipeTyped
    <2>7. CASE Dwelt(c, elapsed.dwell + dt)
      <3>1. /\ phase' = "RETREAT"
            /\ stops' = [stops EXCEPT !.first = [sum |-> c.sum, n |-> c.n]]
            /\ pos' = [pos EXCEPT !.last = q, !.phase = q]
            /\ elapsed' = NoTime /\ lowest' = [from |-> q, at |-> q]
        BY <1>2, <2>7, Zenon DEF step_contact_dwell, Step, Sampled
      <3> HIDE DEF c
      <3>2. RecipeTyped'
        BY <2>1, <2>2, <2>3, <2>4, <3>1 DEF RecipeInv, RecipeTyped, NoTime
      <3>3. Found(stops.first)' /\ lowest'.from = pos'.phase
        BY <2>1, <2>4, <2>7, <3>1 DEF Found, Dwelt, RecipeInv, RecipeTyped
      <3> QED
        BY <2>1, <2>5, <2>6, <3>1, <3>2, <3>3
        DEF RecipeInv, RecipeAccepted, StopsHandOver
    <2>8. CASE ~Dwelt(c, elapsed.dwell + dt)
      <3>1. /\ phase' = "CONTACT_DWELL" /\ pos' = [pos EXCEPT !.last = q]
            /\ elapsed' = [phase |-> elapsed.phase + dt, dwell |-> elapsed.dwell + dt]
            /\ UNCHANGED <<stops, lowest>>
        BY <1>2, <2>8, Zenon DEF step_contact_dwell, Step, Sampled
      <3> HIDE DEF c
      <3>2. RecipeTyped'
        BY <2>1, <2>2, <2>3, <2>4, <3>1, TimePassed DEF RecipeInv, RecipeTyped
      <3> QED
        BY <2>1, <2>5, <2>6, <3>1, <3>2 DEF RecipeInv, RecipeAccepted, StopsHandOver
    <2> QED  BY <2>7, <2>8
  <1> QED  BY <1>1, <1>2

\* RETREAT: the reapproach begins no higher than where the arm came back to.
LEMMA RetreatKeepsRecipe ==
    ASSUME RecipeInv, NEW q \in Angle, NEW speed \in {0, 1}, NEW torque \in {0, 1},
           NEW dt \in Gap, step_retreat(q, speed, torque, dt)
    PROVE  RecipeInv'
  <1>1. CASE FailSession
    BY <1>1, EndKeepsRecipe DEF FailSession
  <1>2. CASE ~FailSession
    <2>1. /\ phase = "RETREAT"
          /\ LimitsHold(speed, torque, dt)
          /\ energy' = energy + Work(speed, torque, dt)
          /\ GlobalTravel(q) \in 0 .. recipe.maximum_approach_travel
          /\ lowest' = [lowest EXCEPT !.at = IF q < @ THEN q ELSE @]
          /\ UNCHANGED <<recipe, stops>>
          /\ \/ /\ -Travel(q) >= recipe.retreat_distance
                /\ phase' = "REAPPROACH"
                /\ pos' = [pos EXCEPT !.last = q, !.phase = q]
                /\ elapsed' = NoTime /\ contact' = NoContact
             \/ /\ phase' = "RETREAT"
                /\ pos' = [pos EXCEPT !.last = q]
                /\ elapsed' = [elapsed EXCEPT !.phase = @ + dt]
                /\ UNCHANGED contact
      BY <1>2, Zenon DEF step_retreat, Step
    <2>2. q \in Int /\ dt \in Nat
      BY CommissionConstants
    <2>3. energy' \in Int /\ energy' <= recipe.maximum_contact_energy
      BY <2>1, LimitsBoundEnergy DEF RecipeInv
    <2>4. /\ pos \in [start : Int, phase : Int, last : Int]
          /\ lowest \in [from : Int, at : Int] /\ lowest.at \in Int
          /\ elapsed \in [phase : Nat, dwell : Nat]
      BY DEF RecipeInv, RecipeTyped
    <2>5. /\ pos' \in [start : Int, phase : Int, last : Int]
          /\ pos'.last = q /\ pos'.start = pos.start
          /\ phase' = "REAPPROACH" => pos'.phase = q
          /\ phase' = "RETREAT" => pos'.phase = pos.phase
      BY <2>1, <2>2, <2>4
    <2>6. /\ lowest' \in [from : Int, at : Int] /\ lowest'.from = lowest.from
          /\ lowest'.at <= q
      <3>1. lowest' = [lowest EXCEPT !.at = IF q < lowest.at THEN q ELSE lowest.at]
        BY <2>1
      <3> QED  BY <2>2, <2>4, <3>1
    <2>7. elapsed' \in [phase : Nat, dwell : Nat]
      BY <2>1, <2>2, <2>4, TimePassed DEF NoTime
    <2>8. RecipeTyped'
      <3>1. contact' \in [sum : Int, n : Nat, second : BOOLEAN]
        <4>1. contact \in [sum : Int, n : Nat, second : BOOLEAN]
          BY DEF RecipeInv, RecipeTyped
        <4>2. contact' \in {contact, NoContact}
          BY <2>1
        <4>3. NoContact \in [sum : Int, n : Nat, second : BOOLEAN]
          BY DEF NoContact
        <4> QED  BY <4>1, <4>2, <4>3
      <3>2. UNCHANGED <<recipe, stops>>
        BY <2>1
      <3> QED  BY <2>3, <2>5, <2>6, <2>7, <3>1, <3>2 DEF RecipeInv, RecipeTyped
    <2>9. InsideEnvelope'
      BY <2>1, <2>2, <2>3, <2>5, RecipeFields
      DEF InsideEnvelope, GlobalTravel, RecipeInv
    <2>10. RecipeAccepted'
      BY <2>1 DEF RecipeAccepted, RecipeInv
    <2>11. Found(stops.first)' /\ lowest.from = pos.phase
      BY <2>1 DEF Found, RecipeInv, StopsHandOver
    <2>12. phase' = "REAPPROACH" =>
             CameBack' /\ lowest'.at <= pos'.phase /\ ~contact'.second
      BY <2>1, <2>2, <2>4, <2>5, <2>6, <2>11, RecipeFields
      DEF CameBack, Travel, RecipeInv, NoContact
    <2>13. StopsHandOver'
      BY <2>1, <2>5, <2>6, <2>11, <2>12 DEF StopsHandOver
    <2> QED  BY <2>8, <2>9, <2>10, <2>13 DEF RecipeInv
  <1> QED  BY <1>1, <1>2

\* REAPPROACH: from the second contact on, every sample lies beyond the least
\* position by the least contact travel, so their mean does.
LEMMA ReapproachKeepsRecipe ==
    ASSUME RecipeInv, NEW q \in Angle, NEW speed \in {0, 1}, NEW torque \in {0, 1},
           NEW dt \in Gap, step_reapproach(q, speed, torque, dt)
    PROVE  RecipeInv'
  <1>1. CASE FailSession
    BY <1>1, EndKeepsRecipe DEF FailSession
  <1>2. CASE ~FailSession
    <2> DEFINE c == Sampled(contact, q)
               first == [sum |-> q, n |-> 1, second |-> TRUE]
    <2>1. /\ phase = "REAPPROACH" /\ Travel(q) >= 0
          /\ Moved(q, speed, torque, dt)
          /\ \/ /\ ~contact.second /\ phase' = "REAPPROACH"
                /\ elapsed' = [elapsed EXCEPT !.phase = @ + dt]
                /\ UNCHANGED <<contact, stops>>
             \/ /\ contact_evidence(Travel(q), speed, torque)
                /\ phase' = "REAPPROACH" /\ contact' = first
                /\ elapsed' = [phase |-> elapsed.phase + dt, dwell |-> 0]
                /\ UNCHANGED stops
             \/ /\ contact_evidence(Travel(q), speed, torque) /\ contact.second
                /\ contact' = c
                /\ elapsed' = [phase |-> elapsed.phase + dt, dwell |-> elapsed.dwell + dt]
                /\ \/ phase' = "REAPPROACH" /\ UNCHANGED stops
                   \/ /\ phase' = "REPEATABILITY"
                      /\ Dwelt(c, elapsed.dwell + dt)
                      /\ stops' = [stops EXCEPT !.second = [sum |-> c.sum, n |-> c.n]]
      BY <1>2, Zenon DEF step_reapproach, Step, Sampled
    <2>2. /\ q \in Int /\ dt \in Nat /\ energy' \in Int
          /\ pos' = [pos EXCEPT !.last = q]
          /\ pos' \in [start : Int, phase : Int, last : Int]
          /\ lowest' \in [from : Int, at : Int] /\ lowest'.from = lowest.from
          /\ q >= lowest.at => lowest'.at = lowest.at
          /\ recipe' = recipe /\ InsideEnvelope'
      BY <2>1, MovedKeepsEnvelope
    <2>3. /\ pos \in [start : Int, phase : Int, last : Int]
          /\ lowest.at \in Int /\ lowest.at <= pos.phase
          /\ elapsed \in [phase : Nat, dwell : Nat]
          /\ contact \in [sum : Int, n : Nat, second : BOOLEAN]
          /\ stops \in [first : [sum : Int, n : Nat], second : [sum : Int, n : Nat]]
          /\ Found(stops.first) /\ CameBack
          /\ contact.second => Beyond(contact)
      BY <2>1 DEF RecipeInv, RecipeTyped, StopsHandOver
    <2>4. lowest'.at = lowest.at /\ pos'.phase = pos.phase /\ q >= pos.phase
      BY <2>1, <2>2, <2>3 DEF Travel
    <2>5. /\ c \in [sum : Int, n : Nat, second : BOOLEAN]
          /\ c.sum = contact.sum + q /\ c.n = contact.n + 1 /\ c.second = contact.second
      BY <2>2, <2>3, SampleCounted
    <2>6. elapsed' \in [phase : Nat, dwell : Nat]
      BY <2>1, <2>2, <2>3, TimePassed
    <2> HIDE DEF c
    <2>7. /\ contact' \in [sum : Int, n : Nat, second : BOOLEAN]
          /\ stops' \in [first : [sum : Int, n : Nat], second : [sum : Int, n : Nat]]
          /\ stops'.first = stops.first
          /\ phase' = "REPEATABILITY" =>
               stops'.second.sum = c.sum /\ stops'.second.n = c.n
      <3>1. contact' \in {contact, first, c}
        BY <2>1
      <3>2. first \in [sum : Int, n : Nat, second : BOOLEAN]
        BY <2>2
      <3>3. ASSUME NEW m \in [sum : Int, n : Nat]
            PROVE  /\ [stops EXCEPT !.second = m]
                        \in [first : [sum : Int, n : Nat], second : [sum : Int, n : Nat]]
                   /\ [stops EXCEPT !.second = m].first = stops.first
                   /\ [stops EXCEPT !.second = m].second = m
        BY <2>3
      <3>4. /\ [sum |-> c.sum, n |-> c.n] \in [sum : Int, n : Nat]
            /\ [sum |-> c.sum, n |-> c.n].sum = c.sum
            /\ [sum |-> c.sum, n |-> c.n].n = c.n
        BY <2>5
      <3>5. \/ UNCHANGED stops /\ phase' = "REAPPROACH"
            \/ stops' = [stops EXCEPT !.second = [sum |-> c.sum, n |-> c.n]]
        BY <2>1
      <3> QED  BY <2>3, <2>5, <3>1, <3>2, <3>3, <3>4, <3>5
    <2>8. RecipeTyped'
      BY <2>2, <2>6, <2>7 DEF RecipeInv, RecipeTyped
    <2>9. contact_evidence(Travel(q), speed, torque) =>
            q >= lowest.at + recipe.minimum_contact_travel
      BY <2>2, <2>3, RecipeFields DEF contact_evidence, Travel, RecipeInv
    <2>10. contact_evidence(Travel(q), speed, torque) /\ contact.second =>
             c.sum >= (lowest.at + recipe.minimum_contact_travel) * c.n
      <3> SUFFICES ASSUME contact_evidence(Travel(q), speed, torque), contact.second
                   PROVE  c.sum >= (lowest.at + recipe.minimum_contact_travel) * c.n
        OBVIOUS
      <3> DEFINE bound == lowest.at + recipe.minimum_contact_travel
      <3>1. bound \in Int /\ q >= bound /\ contact.sum >= bound * contact.n
        BY <2>3, <2>9, RecipeFields DEF Beyond, RecipeInv
      <3>2. contact.sum \in Int /\ contact.n \in Nat
        BY <2>3
      <3> HIDE DEF bound
      <3>3. contact.sum + q >= bound * (contact.n + 1)
        BY <2>2, <3>1, <3>2, MeanBeyond
      <3> QED  BY <2>5, <3>3 DEF bound
    <2>11. contact'.second => Beyond(contact)'
      <3>1. CASE contact' = first
        BY <2>1, <2>2, <2>4, <2>9, <3>1, RecipeFields DEF Beyond, RecipeInv
      <3>2. CASE contact' = c /\ contact_evidence(Travel(q), speed, torque) /\ contact.second
        BY <2>2, <2>4, <2>10, <3>2 DEF Beyond
      <3>3. CASE UNCHANGED contact /\ ~contact.second
        BY <3>3
      <3> QED  BY <2>1, <3>1, <3>2, <3>3
    <2>12. phase' = "REPEATABILITY" => Found(stops.second)' /\ Beyond(stops.second)'
      BY <2>1, <2>2, <2>4, <2>7, <2>10 DEF Found, Beyond, Dwelt
    <2>13. CameBack' /\ Found(stops.first)'
      BY <2>2, <2>3, <2>4, <2>7 DEF CameBack, Found
    <2>14. phase' \in {"REAPPROACH", "REPEATABILITY"}
      BY <2>1
    <2>15. StopsHandOver'
      BY <2>3, <2>4, <2>11, <2>12, <2>13, <2>14 DEF StopsHandOver
    <2>16. RecipeAccepted'
      BY <2>1, <2>2, <2>14 DEF RecipeAccepted, RecipeInv
    <2> QED  BY <2>2, <2>8, <2>15, <2>16 DEF RecipeInv
  <1> QED  BY <1>1, <1>2

\* REPEATABILITY, the review and the commit.
LEMMA ReviewKeepsRecipe ==
    ASSUME RecipeInv, step_repeatability \/ step_review \/ recipe_commit
    PROVE  RecipeInv'
  <1>1. CASE step_repeatability /\ FailSession
    BY <1>1, EndKeepsRecipe DEF FailSession
  <1>2. CASE ~(step_repeatability /\ FailSession)
    <2>1. /\ UNCHANGED <<recipe, pos, elapsed, contact, stops, energy, lowest>>
          /\ \/ /\ phase = "REPEATABILITY" /\ phase' = "CANDIDATE"
                /\ Agree(stops.first, stops.second, recipe.repeatability_tolerance)
             \/ /\ phase \in {"CANDIDATE", "REVIEW"}
                /\ phase' \in {"CANDIDATE", "REVIEW", "COMMIT"}
      BY <1>2, Zenon DEF step_repeatability, step_review, recipe_commit, Step
    <2> QED
      BY <2>1 DEF RecipeInv, RecipeTyped, RecipeAccepted, InsideEnvelope, StopsHandOver,
                  Moving, Found, Beyond, CameBack
  <1> QED  BY <1>1, <1>2

LEMMA RecipeStepKeeps ==
    ASSUME RecipeInv, RecipeStep
    PROVE  RecipeInv'
  <1>1. CASE recipe_create
    BY <1>1 DEF recipe_create, RecipeInv, RecipeTyped, RecipeAccepted, InsideEnvelope,
                StopsHandOver, Moving
  <1>2. CASE step_invalid \/ recipe_abort \/ recipe_destroy
    BY <1>2, EndKeepsRecipe DEF step_invalid, FailSession, recipe_abort, recipe_destroy
  <1>3. CASE step_repeatability \/ step_review \/ recipe_commit
    BY <1>3, ReviewKeepsRecipe
  <1>4. ASSUME NEW q \in Angle, NEW speed \in {0, 1}, NEW torque \in {0, 1}, NEW dt \in Gap,
               \/ step_approach(q, speed, torque, dt)
               \/ step_contact_dwell(q, speed, torque, dt)
               \/ step_retreat(q, speed, torque, dt)
               \/ step_reapproach(q, speed, torque, dt)
        PROVE  RecipeInv'
    BY <1>4, ApproachKeepsRecipe, DwellKeepsRecipe, RetreatKeepsRecipe,
       ReapproachKeepsRecipe
  <1>5. ASSUME NEW q \in Angle, step_precheck(q) \/ step_wait(q) PROVE RecipeInv'
    BY <1>5, StartKeepsRecipe
  <1> QED
    BY <1>1, <1>2, <1>3, <1>4, <1>5, Zenon DEF RecipeStep, oa_commission_recipe_step

-----------------------------------------------------------------------------
(* The manual session.                                                      *)

\* The two references, each over the product of the counts: what the computed
\* offset leaves of one and of the other is the same distance, the difference of
\* the spans.
LEMMA SpansDiffer ==
    ASSUME NEW x \in Int, NEW y \in Int, NEW n \in Nat, NEW m1 \in Int, NEW m2 \in Int,
           NEW a \in {-1, 1},
           a = IF (y - x >= 0) = ((m2 - m1) * n >= 0) THEN 1 ELSE -1
    PROVE  LET delta == y - x
               model == (m2 - m1) * n
               b     == (m1 + m2) * n - a * (x + y)
           IN  /\ Abs(2 * a * x + b - 2 * m1 * n) = Abs(Abs(model) - Abs(delta))
               /\ Abs(2 * a * y + b - 2 * m2 * n) = Abs(Abs(model) - Abs(delta))
  <1> DEFINE u == m1 * n
             v == m2 * n
  <1>1. u \in Int /\ v \in Int /\ (m2 - m1) * n = v - u /\ (m1 + m2) * n = u + v
        /\ 2 * m1 * n = 2 * u /\ 2 * m2 * n = 2 * v
    OBVIOUS
  <1> HIDE DEF u, v
  <1>2. CASE a = 1
    BY <1>1, <1>2 DEF Abs
  <1>3. CASE a = -1
    BY <1>1, <1>3 DEF Abs
  <1> QED  BY <1>2, <1>3

LEMMA CandidateDoesFit ==
    ASSUME ManualInv
    PROVE  CandidateFits
  <1> DEFINE o == manual.opt
             f == manual.means.first
             g == manual.means.second
             n == f.n * g.n
             x == f.sum * g.n
             y == g.sum * f.n
  <1> SUFFICES ASSUME manual.at \in {"CANDIDATE", "REVIEW", "COMMITTED"}
               PROVE  IF o.reference_count = 1
                      THEN manual.a * f.sum + manual.b = o.model[1] * f.n
                      ELSE /\ 100 * Abs(2 * manual.a * f.sum * g.n + manual.b
                                          - 2 * o.model[1] * n)
                                <= o.scale_error_percent * Abs(y - x)
                           /\ 100 * Abs(2 * manual.a * g.sum * f.n + manual.b
                                          - 2 * o.model[2] * n)
                                <= o.scale_error_percent * Abs(y - x)
    BY Zenon DEF CandidateFits, OutputDelta
  <1>1. /\ f.sum \in Int /\ f.n \in Nat /\ g.sum \in Int /\ g.n \in Nat
        /\ manual.a \in Int
    BY DEF ManualInv, ManualTyped, ManualRecord, Means
  <1>2. /\ o.model[1] \in Int /\ o.model[2] \in Int /\ o.known_sign \in Int
        /\ o.scale_error_percent \in Int
    BY CommissionConstants DEF ManualInv, ManualTyped, ManualRecord
  <1>3. /\ manual.a = CandidateSign(manual.means, o) /\ manual.a # 0
        /\ manual.b = CandidateOffset(manual.means, o, manual.a)
    BY DEF ManualInv, CandidateIsComputed
  <1>4. CASE o.reference_count = 1
    <2>1. manual.b = o.model[1] * f.n - manual.a * f.sum
      BY <1>3, <1>4 DEF CandidateOffset
    <2>2. o.model[1] * f.n \in Int /\ manual.a * f.sum \in Int
      BY <1>1, <1>2
    <2> QED  BY <1>4, <2>1, <2>2
  <1>5. CASE o.reference_count # 1
    <2> DEFINE model == (o.model[2] - o.model[1]) * n
    <2>1. n \in Nat /\ x \in Int /\ y \in Int
      BY <1>1
    <2>2. manual.b = (o.model[1] + o.model[2]) * f.n * g.n - manual.a * (x + y)
      BY <1>3, <1>5 DEF CandidateOffset
    <2>3. /\ manual.a = IF (y - x >= 0) = (model >= 0) THEN 1 ELSE -1
          /\ 100 * Abs(Abs(model) - Abs(y - x)) <= o.scale_error_percent * Abs(y - x)
      <3>1. OutputDelta(manual.means) = y - x
        BY DEF OutputDelta
      <3> DEFINE sign == IF (OutputDelta(manual.means) >= 0) = (model >= 0) THEN 1 ELSE -1
                 fits == 100 * Abs(Abs(model) - Abs(OutputDelta(manual.means)))
                           <= o.scale_error_percent * Abs(OutputDelta(manual.means))
                 far == /\ Abs(OutputDelta(manual.means)) >= o.minimum_separation * n
                        /\ Abs(model) >= o.minimum_separation * n
      <3>2. manual.a = IF /\ far /\ fits /\ o.known_sign \in {0, sign} THEN sign ELSE 0
        BY <1>3, <1>5 DEF CandidateSign
      <3> HIDE DEF sign, fits, far
      <3>3. manual.a = sign /\ fits
        BY <1>3, <3>2
      <3> QED  BY <3>1, <3>3 DEF sign, fits
    <2>4. manual.a \in {-1, 1}
      BY <2>3
    <2>5. /\ (o.model[1] + o.model[2]) * f.n * g.n = (o.model[1] + o.model[2]) * n
          /\ 2 * manual.a * f.sum * g.n = 2 * manual.a * x
          /\ 2 * manual.a * g.sum * f.n = 2 * manual.a * y
      BY <1>1, <1>2
    <2> HIDE DEF n, x, y
    <2>6. LET b == (o.model[1] + o.model[2]) * n - manual.a * (x + y) IN
          /\ Abs(2 * manual.a * x + b - 2 * o.model[1] * n) = Abs(Abs(model) - Abs(y - x))
          /\ Abs(2 * manual.a * y + b - 2 * o.model[2] * n) = Abs(Abs(model) - Abs(y - x))
      <3> DEFINE m1 == o.model[1]
                 m2 == o.model[2]
      <3>1. m1 \in Int /\ m2 \in Int
        BY <1>2
      <3>2. manual.a = IF (y - x >= 0) = ((m2 - m1) * n >= 0) THEN 1 ELSE -1
        BY <2>3
      <3> HIDE DEF m1, m2
      <3>3. LET b == (m1 + m2) * n - manual.a * (x + y) IN
            /\ Abs(2 * manual.a * x + b - 2 * m1 * n) = Abs(Abs((m2 - m1) * n) - Abs(y - x))
            /\ Abs(2 * manual.a * y + b - 2 * m2 * n) = Abs(Abs((m2 - m1) * n) - Abs(y - x))
        BY <2>1, <2>4, <3>1, <3>2, SpansDiffer
      <3> QED  BY <3>3 DEF m1, m2
    <2> QED  BY <1>5, <2>2, <2>3, <2>5, <2>6
  <1> QED  BY <1>4, <1>5

\* The sign is a sign, and the offset a number.
LEMMA CandidateTypes ==
    ASSUME NEW o \in ManualOption, NEW m \in [first : Means, second : Means]
    PROVE  /\ CandidateSign(m, o) \in Int
           /\ CandidateOffset(m, o, CandidateSign(m, o)) \in Int
  <1>1. /\ o.model[1] \in Int /\ o.model[2] \in Int /\ o.known_sign \in Int
    BY CommissionConstants
  <1>2. /\ m.first.sum \in Int /\ m.first.n \in Int /\ m.second.sum \in Int
        /\ m.second.n \in Int
    BY DEF Means
  <1>3. CandidateSign(m, o) \in Int
    BY <1>1 DEF CandidateSign
  <1> QED  BY <1>1, <1>2, <1>3 DEF CandidateOffset

\* A session that forgets its candidate, or keeps all it has computed.
LEMMA QuietKeepsManual ==
    ASSUME ManualInv,
           \/ UNCHANGED manual
           \/ manual' = [manual EXCEPT !.acc = NoMean]
           \/ \E at \in {"REFERENCE_1", "refused"} :
                manual.at = "none" /\ manual' = [manual EXCEPT !.at = at]
           \/ \E at \in {"REVIEW", "COMMITTED"} :
                /\ manual.at \in {"CANDIDATE", "REVIEW"}
                /\ manual' = [manual EXCEPT !.at = at]
           \/ manual' = [manual EXCEPT !.at = "ABORTED", !.a = 0, !.b = 0]
           \/ \E at \in {"ABORTED", "destroyed"} :
                manual' = [NoManual(manual.opt) EXCEPT !.at = at]
    PROVE  ManualInv'
  <1>1. /\ NoMean \in Means /\ Mean0 \in [first : Means, second : Means]
    BY DEF NoMean, Mean0, Means
  <1>2. manual.opt \in ManualOption
    BY DEF ManualInv, ManualTyped, ManualRecord
  <1>3. NoManual(manual.opt) \in ManualRecord
    BY <1>1, <1>2 DEF NoManual, ManualRecord, ManualPhases
  <1>4. CASE UNCHANGED manual
    BY <1>4 DEF ManualInv, ManualTyped, CandidateIsComputed
  <1>5. CASE manual' = [manual EXCEPT !.acc = NoMean]
    <2>1. manual' \in ManualRecord
      BY <1>1, <1>5 DEF ManualInv, ManualTyped, ManualRecord
    <2>2. /\ manual'.at = manual.at /\ manual'.opt = manual.opt
          /\ manual'.means = manual.means /\ manual'.a = manual.a /\ manual'.b = manual.b
      BY <1>5 DEF ManualInv, ManualTyped, ManualRecord
    <2> QED  BY <2>1, <2>2 DEF ManualInv, ManualTyped, CandidateIsComputed
  <1>6. ASSUME NEW at \in {"REFERENCE_1", "refused", "REVIEW", "COMMITTED"},
               manual' = [manual EXCEPT !.at = at],
               at \in {"REVIEW", "COMMITTED"} => manual.at \in {"CANDIDATE", "REVIEW"}
        PROVE  ManualInv'
    <2>1. manual' \in ManualRecord
      BY <1>6 DEF ManualInv, ManualTyped, ManualRecord, ManualPhases
    <2>2. /\ manual'.at = at /\ manual'.opt = manual.opt
          /\ manual'.means = manual.means /\ manual'.a = manual.a /\ manual'.b = manual.b
      BY <1>6 DEF ManualInv, ManualTyped, ManualRecord
    <2> QED  BY <1>6, <2>1, <2>2 DEF ManualInv, ManualTyped, CandidateIsComputed
  <1>7. CASE manual' = [manual EXCEPT !.at = "ABORTED", !.a = 0, !.b = 0]
    <2>1. manual' \in ManualRecord
      <3> DEFINE g(at, a, b) == [manual EXCEPT !.at = at, !.a = a, !.b = b]
      <3>1. ASSUME NEW at \in ManualPhases, NEW a \in Int, NEW b \in Int
            PROVE  g(at, a, b) \in ManualRecord
        BY DEF ManualInv, ManualTyped, ManualRecord
      <3>2. "ABORTED" \in ManualPhases
        BY DEF ManualPhases
      <3>3. manual' = g("ABORTED", 0, 0)
        BY <1>7
      <3> HIDE DEF g
      <3> QED  BY <3>1, <3>2, <3>3
    <2>2. manual'.at = "ABORTED"
      BY <1>7 DEF ManualInv, ManualTyped, ManualRecord
    <2> QED  BY <2>1, <2>2 DEF ManualInv, ManualTyped, CandidateIsComputed
  <1>8. ASSUME NEW at \in {"ABORTED", "destroyed"},
               manual' = [NoManual(manual.opt) EXCEPT !.at = at]
        PROVE  ManualInv'
    <2>1. manual' \in ManualRecord
      BY <1>3, <1>8 DEF ManualRecord, ManualPhases
    <2>2. manual'.at = at
      BY <1>3, <1>8 DEF ManualRecord
    <2> QED  BY <1>8, <2>1, <2>2 DEF ManualInv, ManualTyped, CandidateIsComputed
  <1> QED  BY <1>4, <1>5, <1>6, <1>7, <1>8

\* A sample accumulates, and leaves the rest of the session as it was.
LEMMA CollectedKeeps ==
    ASSUME ManualTyped, NEW q \in Int, NEW dt \in Int
    PROVE  /\ Collected(q, dt) \in ManualRecord
           /\ Collected(q, dt).at = manual.at /\ Collected(q, dt).opt = manual.opt
           /\ Collected(q, dt).means = manual.means
  <1> DEFINE g(acc, lo, hi, dwell) ==
               [manual EXCEPT !.acc = acc, !.lo = lo, !.hi = hi, !.dwell = dwell]
  <1>1. /\ manual.acc \in Means /\ manual.lo \in Int /\ manual.hi \in Int
        /\ manual.dwell \in Int
    BY DEF ManualTyped, ManualRecord
  <1>2. Mean(NoMean, q) \in Means /\ Mean(manual.acc, q) \in Means
    BY <1>1 DEF Means, Mean, NoMean
  <1>3. ASSUME NEW acc \in Means, NEW lo \in Int, NEW hi \in Int, NEW dwell \in Int
        PROVE  /\ g(acc, lo, hi, dwell) \in ManualRecord
               /\ g(acc, lo, hi, dwell).at = manual.at
               /\ g(acc, lo, hi, dwell).opt = manual.opt
               /\ g(acc, lo, hi, dwell).means = manual.means
    BY DEF ManualTyped, ManualRecord
  <1>4. \E acc \in Means, lo, hi, dwell \in Int : Collected(q, dt) = g(acc, lo, hi, dwell)
    <2> DEFINE lo == IF q < manual.lo THEN q ELSE manual.lo
               hi == IF q > manual.hi THEN q ELSE manual.hi
    <2>1. lo \in Int /\ hi \in Int /\ manual.dwell + dt \in Int
      BY <1>1
    <2>2. \/ Collected(q, dt) = g(Mean(NoMean, q), q, q, 0)
          \/ Collected(q, dt) = g(Mean(manual.acc, q), lo, hi, manual.dwell + dt)
      BY Zenon DEF Collected
    <2> HIDE DEF g, lo, hi
    <2> QED  BY <1>2, <2>1, <2>2
  <1> HIDE DEF g
  <1> QED  BY <1>3, <1>4

\* A full reference: the first hands over to the second, or the candidate is
\* computed from the means the sample completes.
LEMMA SampleKeepsManual ==
    ASSUME ManualInv, NEW q \in Angle, NEW dt \in Gap, manual_sample(q, dt)
    PROVE  ManualInv'
  <1> DEFINE m == Collected(q, dt)
             means == IF manual.at = "REFERENCE_2" THEN [m.means EXCEPT !.second = m.acc]
                                                  ELSE [m.means EXCEPT !.first = m.acc]
             a == CandidateSign(means, m.opt)
             b == CandidateOffset(means, m.opt, a)
             handed(s) == [m EXCEPT !.at = "REFERENCE_2", !.means = s, !.acc = NoMean]
             kept(s) == [m EXCEPT !.means = s]
             computed(s, c, d) == [m EXCEPT !.at = "CANDIDATE", !.means = s, !.a = c, !.b = d]
  <1>1. q \in Int /\ dt \in Int
    BY CommissionConstants
  <1>2. /\ m \in ManualRecord /\ m.at = manual.at /\ m.opt = manual.opt
        /\ m.means = manual.means
    BY <1>1, CollectedKeeps DEF ManualInv
  <1>3. /\ manual.at \in {"REFERENCE_1", "REFERENCE_2"}
        /\ \/ manual' \in {m, handed(means), kept(means)}
           \/ a # 0 /\ manual' = computed(means, a, b)
    BY Zenon DEF manual_sample, Collecting
  <1>4. ASSUME NEW s \in [first : Means, second : Means], NEW c \in Int, NEW d \in Int
        PROVE  /\ handed(s) \in ManualRecord /\ handed(s).at = "REFERENCE_2"
               /\ kept(s) \in ManualRecord /\ kept(s).at = m.at
               /\ computed(s, c, d) \in ManualRecord
               /\ computed(s, c, d).opt = m.opt /\ computed(s, c, d).means = s
               /\ computed(s, c, d).a = c /\ computed(s, c, d).b = d
    <2> HIDE DEF m, means, a, b
    <2>1. NoMean \in Means
      BY DEF NoMean, Means
    <2>2. handed(s) \in ManualRecord /\ handed(s).at = "REFERENCE_2"
      BY <1>2, <2>1 DEF ManualRecord, ManualPhases
    <2>3. kept(s) \in ManualRecord /\ kept(s).at = m.at
      BY <1>2 DEF ManualRecord
    <2>4. computed(s, c, d) \in ManualRecord
      BY <1>2 DEF ManualRecord, ManualPhases
    <2>5. /\ computed(s, c, d).opt = m.opt /\ computed(s, c, d).means = s
          /\ computed(s, c, d).a = c /\ computed(s, c, d).b = d
      BY <1>2 DEF ManualRecord
    <2> QED  BY <2>2, <2>3, <2>4, <2>5
  <1>5. means \in [first : Means, second : Means]
    <2> HIDE DEF m
    <2>1. m.means \in [first : Means, second : Means] /\ m.acc \in Means
      BY <1>2 DEF ManualRecord
    <2>2. ASSUME NEW s \in [first : Means, second : Means], NEW c \in Means
          PROVE  /\ [s EXCEPT !.second = c] \in [first : Means, second : Means]
                 /\ [s EXCEPT !.first = c] \in [first : Means, second : Means]
      OBVIOUS
    <2> QED  BY <2>1, <2>2
  <1> HIDE DEF m, means, handed, kept, computed
  <1>6. m.opt \in ManualOption
    BY <1>2 DEF ManualRecord
  <1>7. a \in Int /\ b \in Int
    BY <1>5, <1>6, CandidateTypes
  <1>8. CASE manual' \in {m, handed(means), kept(means)}
    BY <1>2, <1>3, <1>4, <1>5, <1>8 DEF ManualInv, ManualTyped, CandidateIsComputed
  <1>9. CASE a # 0 /\ manual' = computed(means, a, b)
    <2>1. /\ manual' \in ManualRecord /\ manual'.opt = m.opt /\ manual'.means = means
          /\ manual'.a = a /\ manual'.b = b
      <3> HIDE DEF a, b
      <3> QED  BY <1>4, <1>5, <1>7, <1>9
    <2> QED  BY <1>9, <2>1 DEF ManualInv, ManualTyped, CandidateIsComputed
  <1> QED  BY <1>3, <1>8, <1>9

LEMMA ManualStepKeeps ==
    ASSUME ManualInv, ManualStep
    PROVE  ManualInv'
  <1>1. CASE \E q \in Angle, dt \in Gap : manual_sample(q, dt)
    BY <1>1, SampleKeepsManual
  <1>2. CASE ~\E q \in Angle, dt \in Gap : manual_sample(q, dt)
    <2>1. \/ manual' = [manual EXCEPT !.acc = NoMean]
          \/ \E at \in {"REFERENCE_1", "refused"} :
               manual.at = "none" /\ manual' = [manual EXCEPT !.at = at]
          \/ \E at \in {"REVIEW", "COMMITTED"} :
               /\ manual.at \in {"CANDIDATE", "REVIEW"}
               /\ manual' = [manual EXCEPT !.at = at]
          \/ manual' = [manual EXCEPT !.at = "ABORTED", !.a = 0, !.b = 0]
          \/ \E at \in {"ABORTED", "destroyed"} :
               manual' = [NoManual(manual.opt) EXCEPT !.at = at]
      BY <1>2 DEF ManualStep, manual_create, oa_commission_manual_sample,
                  manual_sample_invalid, manual_sample_fast, manual_begin_review,
                  manual_commit, manual_abort, manual_destroy
    <2> QED  BY <2>1, QuietKeepsManual
  <1> QED  BY <1>1, <1>2

LEMMA CommissionStarts ==
    ASSUME CommissionInit
    PROVE  RecipeInv /\ ManualInv
  BY DEF CommissionInit, RecipeInv, RecipeTyped, RecipeAccepted, InsideEnvelope,
         StopsHandOver, Moving, NoPos, NoTime, NoContact, Mean0, NoMean, ManualInv,
         ManualTyped, ManualRecord, ManualPhases, Means, CandidateIsComputed, NoManual

\* The two sessions are separate: a step of one leaves the other as it was.
LEMMA RecipeLeavesManual ==
    ASSUME RecipeStep
    PROVE  UNCHANGED manual
  <1>1. ASSUME \/ recipe_create \/ step_invalid \/ step_repeatability \/ step_review
               \/ \E q \in Angle : step_precheck(q) \/ step_wait(q)
               \/ recipe_commit \/ recipe_abort \/ recipe_destroy
        PROVE  UNCHANGED manual
    BY <1>1 DEF recipe_create, step_invalid, step_repeatability, step_review,
                step_precheck, step_wait, recipe_commit, recipe_abort,
                recipe_destroy, FailSession
  <1>2. ASSUME NEW q \in Angle, NEW speed \in {0, 1}, NEW torque \in {0, 1},
               NEW dt \in Gap,
               \/ step_approach(q, speed, torque, dt)
               \/ step_contact_dwell(q, speed, torque, dt)
               \/ step_retreat(q, speed, torque, dt)
               \/ step_reapproach(q, speed, torque, dt)
        PROVE  UNCHANGED manual
    BY <1>2, Zenon DEF step_approach, step_contact_dwell, step_retreat,
                       step_reapproach, FailSession, Moved
  <1> QED  BY <1>1, <1>2 DEF RecipeStep, oa_commission_recipe_step

LEMMA ManualLeavesRecipe ==
    ASSUME ManualStep
    PROVE  UNCHANGED recipeVars
  BY Zenon DEF ManualStep, manual_create, oa_commission_manual_sample, manual_sample,
               manual_sample_invalid, manual_sample_fast, manual_begin_review,
               manual_commit, manual_abort, manual_destroy

LEMMA CommissionInductive ==
    ASSUME RecipeInv, ManualInv, [CommissionNext]_commissionVars
    PROVE  RecipeInv' /\ ManualInv'
  <1>1. UNCHANGED <<recipe, phase, pos, elapsed, contact, stops, energy, lowest>>
          => RecipeInv'
    BY DEF RecipeInv, RecipeTyped, RecipeAccepted, InsideEnvelope, StopsHandOver, Found,
           Beyond, CameBack
  <1>2. UNCHANGED manual => ManualInv'
    BY QuietKeepsManual
  <1>3. CASE RecipeStep
    BY <1>2, <1>3, RecipeLeavesManual, RecipeStepKeeps
  <1>4. CASE ManualStep
    BY <1>1, <1>4, ManualLeavesRecipe, ManualStepKeeps DEF recipeVars
  <1>5. CASE UNCHANGED commissionVars
    BY <1>1, <1>2, <1>5 DEF commissionVars
  <1> QED  BY <1>3, <1>4, <1>5 DEF CommissionNext

LEMMA CommissionInvariant == CommissionSpec => [](RecipeInv /\ ManualInv)
  <1>1. CommissionInit => RecipeInv /\ ManualInv
    BY CommissionStarts
  <1>2. RecipeInv /\ ManualInv /\ [CommissionNext]_commissionVars
          => (RecipeInv /\ ManualInv)'
    BY CommissionInductive
  <1> QED  BY <1>1, <1>2, PTL DEF CommissionSpec

LEMMA CommissionTells ==
    ASSUME RecipeInv, ManualInv
    PROVE  CommissionSafe
  <1>1. InsideEnvelope /\ TwoIndependentStops
    BY DEF RecipeInv, StopsHandOver, TwoIndependentStops, Found, Beyond, CameBack
  <1>2. CandidateFits
    BY CandidateDoesFit
  <1> QED  BY <1>1, <1>2 DEF CommissionSafe

\* The commissioning sessions: motion stays in its envelope, a recipe's candidate
\* rests on two findings of the stop, and a manual one maps its fixtures, for every
\* recipe, option and sequence of samples (oa_commission_recipe_step,
\* oa_commission_manual_sample).
THEOREM CommissioningIsSafe == CommissionSpec => []CommissionSafe
  <1>1. RecipeInv /\ ManualInv => CommissionSafe
    BY CommissionTells
  <1> QED  BY <1>1, CommissionInvariant, PTL

-----------------------------------------------------------------------------
(* The types.  The invariants type what the sessions compute with; what is   *)
(* left is which phase and action they are in, and that work is only added.  *)

PhaseKnown == phase \in Phases /\ ask \in Asks /\ energy \in Nat

LEMMA SampleKeepsPhase ==
    ASSUME PhaseKnown, NEW q \in Angle, NEW speed \in {0, 1}, NEW torque \in {0, 1},
           NEW dt \in Gap,
           \/ step_approach(q, speed, torque, dt)
           \/ step_contact_dwell(q, speed, torque, dt)
           \/ step_retreat(q, speed, torque, dt)
           \/ step_reapproach(q, speed, torque, dt)
    PROVE  PhaseKnown'
  <1>1. \/ phase' \in Moving \cup {"ABORT", "REPEATABILITY"}
           /\ ask' \in Moving \cup {"HOLD_DISABLED", "ABORT_DISABLE"}
    <2>1. ASSUME FailSession
          PROVE  phase' = "ABORT" /\ ask' = "ABORT_DISABLE"
      BY <2>1 DEF FailSession
    <2>2. ASSUME NEW to, NEW next, Step(to, next)
          PROVE  phase' = to /\ ask' = next
      BY <2>2 DEF Step
    <2>3. CASE step_approach(q, speed, torque, dt)
      BY <2>1, <2>2, <2>3, Zenon DEF step_approach, Moving
    <2>4. CASE step_contact_dwell(q, speed, torque, dt)
      BY <2>1, <2>2, <2>4, Zenon DEF step_contact_dwell, Moving
    <2>5. CASE step_retreat(q, speed, torque, dt)
      BY <2>1, <2>2, <2>5, Zenon DEF step_retreat, Moving
    <2>6. CASE step_reapproach(q, speed, torque, dt)
      BY <2>1, <2>2, <2>6, Zenon DEF step_reapproach, Moving
    <2> QED  BY <2>3, <2>4, <2>5, <2>6
  <1>2. energy' \in {energy, energy + Work(speed, torque, dt)}
    BY Zenon DEF step_approach, step_contact_dwell, step_retreat, step_reapproach, Moved,
                 FailSession
  <1>3. energy' \in Nat
    <2>1. dt \in Nat
      BY CommissionConstants
    <2>2. Work(speed, torque, dt) \in Nat
      BY <2>1 DEF Work
    <2> QED  BY <1>2, <2>2 DEF PhaseKnown
  <1> QED  BY <1>1, <1>3 DEF PhaseKnown, Phases, Asks, Moving

LEMMA RecipeKeepsPhase ==
    ASSUME PhaseKnown, RecipeStep
    PROVE  PhaseKnown'
  <1>1. ASSUME \/ recipe_create \/ step_invalid \/ step_repeatability \/ step_review
               \/ \E q \in Angle : step_precheck(q) \/ step_wait(q)
               \/ recipe_commit \/ recipe_abort \/ recipe_destroy
        PROVE  PhaseKnown'
    BY <1>1 DEF recipe_create, step_invalid, step_repeatability, step_review,
                step_precheck, step_wait, recipe_commit, recipe_abort, recipe_destroy,
                FailSession, Step, PhaseKnown, Phases, Asks, Moving
  <1> QED
    BY <1>1, SampleKeepsPhase, Zenon DEF RecipeStep, oa_commission_recipe_step

LEMMA PhaseStaysKnown ==
    ASSUME PhaseKnown, [CommissionNext]_commissionVars
    PROVE  PhaseKnown'
  <1>1. UNCHANGED recipeVars => PhaseKnown'
    BY DEF recipeVars, PhaseKnown
  <1> QED
    BY <1>1, RecipeKeepsPhase, ManualLeavesRecipe
    DEF CommissionNext, commissionVars, recipeVars

LEMMA CommissionTyping ==
    ASSUME RecipeInv, ManualInv, PhaseKnown
    PROVE  CommissionTypeOK
  <1>1. /\ recipe \in Recipe /\ phase \in Phases /\ ask \in Asks
        /\ {pos.start, pos.phase, pos.last, lowest.at, lowest.from} \subseteq Int
        /\ contact.second \in BOOLEAN
    BY DEF RecipeInv, RecipeTyped, PhaseKnown
  <1>2. /\ elapsed.phase \in Nat /\ elapsed.dwell \in Nat /\ contact.n \in Nat
        /\ stops.first.n \in Nat /\ stops.second.n \in Nat /\ energy \in Nat
    BY DEF RecipeInv, RecipeTyped, PhaseKnown
  <1>3. {elapsed.phase, elapsed.dwell, contact.n, stops.first.n, stops.second.n, energy}
          \subseteq Nat
    BY <1>2
  <1>4. manual.at \in ManualPhases /\ manual.opt \in ManualOption
    BY DEF ManualInv, ManualTyped, ManualRecord
  <1> QED  BY <1>1, <1>3, <1>4 DEF CommissionTypeOK, ManualPhases

\* The commissioning sessions keep their types: every phase and requested action is
\* one of the API's, and the work counted against the stop never goes below zero
\* (oa_commission_recipe_step, oa_commission_manual_sample).
THEOREM CommissionTypes == CommissionSpec => []CommissionTypeOK
  <1>1. CommissionInit => PhaseKnown
    BY DEF CommissionInit, PhaseKnown, Phases, Asks
  <1>2. PhaseKnown /\ [CommissionNext]_commissionVars => PhaseKnown'
    BY PhaseStaysKnown
  <1>3. RecipeInv /\ ManualInv /\ PhaseKnown => CommissionTypeOK
    BY CommissionTyping
  <1> QED  BY <1>1, <1>2, <1>3, CommissionInvariant, PTL DEF CommissionSpec
=============================================================================
