---------------------------- MODULE ManifestStore ----------------------------
(***************************************************************************)
(* The V2 persistence of signed manifests (runtime/src/persistence.cpp).   *)
(*                                                                         *)
(* Processes share one directory.  Each opens an authority of its own and  *)
(* loads, saves or recovers manifests under the directory lock; the caller *)
(* keeps the trusted checkpoint outside the directory and moves it after a *)
(* call that returned OK.  Any call that reaches the disk can fail there,  *)
(* a process can be killed between any two steps, and the machine can lose *)
(* power: then each directory entry holds one of the values it has had     *)
(* since the directory was last synced.                                    *)
(*                                                                         *)
(* A manifest is its revision and its digest.  An entry that is absent,    *)
(* and the checkpoint of a stream never written, is NoManifest.  File      *)
(* contents are synced before they are renamed into place, so they are     *)
(* whole whenever the entry is.                                            *)
(***************************************************************************)
EXTENDS Naturals, FiniteSets

CONSTANTS
    Proc,      \* processes that use the library
    NoProc,    \* nobody holds the directory lock
    Digest,    \* contents a manifest of one revision can have
    NoDigest,  \* the digest of the zero checkpoint
    Manifest,  \* the manifests callers may save: [rev, dig]
    Readable   \* sets of slots the two reads of a recovery may find readable

ASSUME StoreConstants ==
    /\ NoProc \notin Proc
    /\ NoDigest \notin Digest
    /\ Manifest \subseteq [rev: Nat \ {0}, dig: Digest]
    /\ Readable \subseteq SUBSET {"current", "previous"}

VARIABLES
    live,      \* the directory as processes see it, an entry per slot
    disk,      \* the values each entry may have after a power loss
    litter,    \* a reserved-prefix temporary is in the directory
    lock,      \* holder of the exclusive flock on the directory
    auth,      \* each process's authority
    step,      \* where each process is
    req,       \* the call each process is making
    ext        \* the caller-owned checkpoint, outside the directory

storeVars == <<live, disk, litter, lock, auth, step, req, ext>>

NoManifest == [rev |-> 0, dig |-> NoDigest]
Entry == Manifest \cup {NoManifest}
Slot == {"current", "previous"}

Ops == {"load", "save", "recover"}
Steps == {"idle", "called", "check", "temp", "backup", "prior_sync", "install",
          "verify", "commit", "rollback", "rollback_sync", "resync",
          "promote", "promote_check", "promote_sync", "returned"}
Results == {"none", "OK", "EIO", "ESTALE", "EPERMISSION", "EDURABILITY"}

ClosedAuthority == [open |-> FALSE, poisoned |-> FALSE, trust |-> NoManifest]
NoOperation == [op |-> "load", ck |-> NoManifest, seen |-> NoManifest,
              man |-> NoManifest, res |-> "none", from |-> NoManifest,
              fromDisk |-> {}]

StoreTypeOK ==
    /\ live \in [Slot -> Entry]
    /\ disk \in [Slot -> SUBSET Entry]
    /\ litter \in BOOLEAN
    /\ lock \in Proc \cup {NoProc}
    /\ auth \in [Proc -> [open: BOOLEAN, poisoned: BOOLEAN, trust: Entry]]
    /\ step \in [Proc -> Steps]
    /\ req \in [Proc -> [op: Ops, ck: Entry, seen: Entry, man: Entry,
                         res: Results, from: Entry, fromDisk: SUBSET Entry]]
    /\ ext \in Entry

StoreInit ==
    /\ live = [s \in Slot |-> NoManifest]
    /\ disk = [s \in Slot |-> {NoManifest}]
    /\ litter = FALSE
    /\ lock = NoProc
    /\ auth = [p \in Proc |-> ClosedAuthority]
    /\ step = [p \in Proc |-> "idle"]
    /\ req = [p \in Proc |-> NoOperation]
    /\ ext = NoManifest

-----------------------------------------------------------------------------
(* The comparisons of a manifest with a checkpoint.                        *)

\* The floor: newer than the checkpoint, or exactly it.
satisfies_floor(m, ck) == m # NoManifest /\ (m.rev > ck.rev \/ m = ck)

\* Below what the authority already trusts, or another content of it.
BelowTrust(ck, trust) == ck.rev < trust.rev \/ (ck.rev = trust.rev /\ ck # trust)

(* Effects on the directory. *)

Put(d, s, m) == [d EXCEPT ![s] = m]
MayHold(d, s, m) == [d EXCEPT ![s] = @ \cup {m}]

\* fsync of the directory succeeded: the entries are what processes see.
DirectorySynced == disk' = [s \in Slot |-> {live[s]}]

Goto(p, s) == step' = [step EXCEPT ![p] = s]

\* The call returns r and its transaction lock is released.
Return(p, r) ==
    /\ step' = [step EXCEPT ![p] = "returned"]
    /\ req' = [req EXCEPT ![p].res = r]
    /\ lock' = IF lock = p THEN NoProc ELSE lock

\* No mount of the directory entries changes.
DirectoryUnchanged == UNCHANGED <<live, disk>>

-----------------------------------------------------------------------------
(* Opening and destroying an authority.                                    *)

authority_open_v2(p) ==
    /\ step[p] = "idle" /\ ~auth[p].open
    /\ auth' = [auth EXCEPT ![p] = [open |-> TRUE, poisoned |-> FALSE, trust |-> ext]]
    /\ UNCHANGED <<live, disk, litter, lock, step, req, ext>>

authority_destroy(p) ==
    /\ step[p] = "idle" /\ auth[p].open
    /\ auth' = [auth EXCEPT ![p] = ClosedAuthority]
    /\ UNCHANGED <<live, disk, litter, lock, step, req, ext>>

\* A process loads or saves with the external checkpoint or with the one its
\* authority returned last.  Recovery is an explicit act with the unchanged external
\* checkpoint: nobody makes another call meanwhile.
Recovering(q) == step[q] # "idle" /\ req[q].op = "recover"

Call(p) ==
    /\ step[p] = "idle" /\ auth[p].open
    /\ \A q \in Proc : ~Recovering(q)
    /\ \E op \in Ops, ck \in {ext, auth[p].trust}, m \in Manifest \cup {NoManifest} :
         /\ (op = "save") <=> (m # NoManifest)
         /\ op = "recover" => ck = ext /\ \A q \in Proc : step[q] = "idle"
         /\ req' = [req EXCEPT ![p] = [NoOperation EXCEPT !.op = op, !.ck = ck,
                                                          !.seen = ext, !.man = m]]
    /\ Goto(p, "called")
    /\ UNCHANGED <<live, disk, litter, lock, auth, ext>>

-----------------------------------------------------------------------------
(* Before the transaction lock.                                            *)

\* What a call answers before it looks at the directory; "none" lets it on.
bind_v2_call(p) ==
    LET r == req[p]  a == auth[p] IN
    IF r.op # "save" /\ r.ck.rev = 0 THEN "EPERMISSION"
    ELSE IF r.op = "recover"
         THEN IF BelowTrust(r.ck, a.trust)
              THEN IF a.poisoned THEN "EDURABILITY" ELSE "ESTALE"
              ELSE IF a.poisoned /\ r.ck # a.trust THEN "EDURABILITY" ELSE "none"
         ELSE IF a.poisoned THEN "EDURABILITY"
              ELSE IF BelowTrust(r.ck, a.trust) THEN "ESTALE" ELSE "none"

BindRefused(p) ==
    /\ step[p] = "called"
    /\ bind_v2_call(p) # "none"
    /\ Return(p, bind_v2_call(p))
    /\ UNCHANGED <<live, disk, litter, auth, ext>>

\* DirectoryTransaction: wait for the exclusive lock.
LockDirectory(p) ==
    /\ step[p] = "called"
    /\ bind_v2_call(p) = "none"
    /\ lock = NoProc
    /\ lock' = p
    /\ Goto(p, "check")
    /\ req' = [req EXCEPT ![p].from = live["current"], ![p].fromDisk = disk["current"]]
    /\ UNCHANGED <<live, disk, litter, auth, ext>>

\* Abandoned temporaries are removed and the directory synced before the call
\* goes on; without any, nothing is synced.
cleanup_internal_artifacts(p) ==
    /\ step[p] = "check" /\ litter
    /\ litter' = FALSE
    /\ \/ /\ DirectorySynced
          /\ UNCHANGED <<lock, step, req>>
       \/ /\ Return(p, "EIO")
          /\ UNCHANGED disk
    /\ UNCHANGED <<live, auth, ext>>

-----------------------------------------------------------------------------
(* Load.                                                                   *)

\* The manifest handed to the caller becomes what the authority trusts.
Observed(p, m) == auth' = [auth EXCEPT ![p].trust = m, ![p].poisoned = FALSE]

manifest_load_v2(p) ==
    LET m == live["current"] IN
    /\ step[p] = "check" /\ ~litter /\ req[p].op = "load"
    /\ \/ /\ satisfies_floor(m, req[p].ck)
          /\ Observed(p, m)
          /\ step' = [step EXCEPT ![p] = "returned"]
          /\ req' = [req EXCEPT ![p].res = "OK", ![p].man = m]
          /\ lock' = NoProc
       \/ /\ ~satisfies_floor(m, req[p].ck)
          /\ Return(p, IF m = NoManifest THEN "EIO" ELSE "ESTALE")
          /\ UNCHANGED auth
       \/ /\ Return(p, "EIO")          \* the file cannot be read
          /\ UNCHANGED auth
    /\ DirectoryUnchanged
    /\ UNCHANGED <<litter, ext>>

-----------------------------------------------------------------------------
(* Save: an exact-current compare-and-swap.                                *)

\* Which way a save goes once it has read the current manifest.
SaveVerdict(p) ==
    LET r == req[p] IN
    IF live["current"] # r.ck THEN "ESTALE"
    ELSE IF r.man = r.ck THEN "resync"
    ELSE IF r.man.rev <= r.ck.rev THEN "ESTALE" ELSE "temp"

save_check(p) ==
    /\ step[p] = "check" /\ ~litter /\ req[p].op = "save"
    /\ \/ /\ SaveVerdict(p) \in Steps
          /\ Goto(p, SaveVerdict(p))
          /\ UNCHANGED <<lock, req>>
       \/ /\ SaveVerdict(p) \notin Steps
          /\ Return(p, SaveVerdict(p))
       \/ /\ live["current"] # NoManifest
          /\ Return(p, "EIO")
    /\ UNCHANGED <<live, disk, litter, auth, ext>>

\* The content is already there: sync the file and the directory again.
sync_existing(p) ==
    /\ step[p] = "resync"
    /\ \/ /\ DirectorySynced
          /\ Return(p, "OK")
          /\ Observed(p, req[p].man)
       \/ /\ Return(p, IF req[p].op = "recover" /\ auth[p].poisoned THEN "EDURABILITY"
                       ELSE "EIO")
          /\ UNCHANGED <<disk, auth>>
    /\ UNCHANGED <<live, litter, ext>>

\* An error before the new manifest is in place: the temporaries go.
GiveUp(p) ==
    /\ Return(p, "EIO")
    /\ litter' = FALSE
    /\ UNCHANGED <<live, disk, auth>>

\* A save that installs over the current manifest without a copy of it.
write_temporary_no_backup(p) ==
    /\ step[p] = "temp"
    /\ \/ /\ litter' = TRUE
          /\ Goto(p, "install")
          /\ UNCHANGED <<live, disk, auth, lock, req>>
       \/ GiveUp(p)
    /\ UNCHANGED ext

\* The new contents are written to a temporary and synced.
write_temporary(p) ==
    /\ step[p] = "temp"
    /\ \/ /\ litter' = TRUE
          /\ Goto(p, IF live["current"] # NoManifest THEN "backup" ELSE "install")
          /\ UNCHANGED <<live, disk, auth, lock, req>>
       \/ GiveUp(p)
    /\ UNCHANGED ext

\* The current manifest is copied, synced and renamed to .previous.
install_previous(p) ==
    /\ step[p] = "backup"
    /\ \/ /\ live' = Put(live, "previous", live["current"])
          /\ disk' = MayHold(disk, "previous", live["current"])
          /\ Goto(p, "prior_sync")
          /\ UNCHANGED <<auth, lock, req, litter>>
       \/ GiveUp(p)
    /\ UNCHANGED ext

sync_previous(p) ==
    /\ step[p] = "prior_sync"
    /\ \/ /\ DirectorySynced
          /\ Goto(p, "install")
          /\ UNCHANGED <<live, auth, lock, req, litter>>
       \/ GiveUp(p)
    /\ UNCHANGED ext

\* The rename that makes the new manifest current.
install_signed_v2(p) ==
    /\ step[p] = "install"
    /\ \/ /\ live' = Put(live, "current", req[p].man)
          /\ disk' = MayHold(disk, "current", req[p].man)
          /\ litter' = FALSE
          /\ Goto(p, "verify")
          /\ UNCHANGED <<auth, lock, req>>
       \/ GiveUp(p)
    /\ UNCHANGED ext

\* The installed file is read back and authenticated.
verify_installed(p) ==
    /\ step[p] = "verify"
    /\ \/ Goto(p, "commit")
       \/ Goto(p, "rollback")
    /\ UNCHANGED <<live, disk, litter, lock, auth, req, ext>>

\* The final sync of the directory commits the save.
commit_sync(p) ==
    /\ step[p] = "commit"
    /\ \/ /\ DirectorySynced
          /\ Return(p, "OK")
          /\ Observed(p, req[p].man)
       \/ /\ Goto(p, "rollback")
          /\ UNCHANGED <<disk, auth, lock, req>>
    /\ UNCHANGED <<live, litter, ext>>

\* .previous is renamed back, or a first manifest is unlinked.
roll_back(p) ==
    /\ step[p] = "rollback"
    /\ LET prior == IF req[p].ck # NoManifest THEN live["previous"] ELSE NoManifest
           gone  == IF req[p].ck # NoManifest THEN NoManifest ELSE live["previous"] IN
       \/ /\ live' = [current |-> prior, previous |-> gone]
          /\ disk' = [current |-> disk["current"] \cup {prior},
                      previous |-> disk["previous"] \cup {gone}]
          /\ Goto(p, "rollback_sync")
          /\ UNCHANGED <<auth, lock, req>>
       \/ /\ Return(p, "EDURABILITY")
          /\ auth' = [auth EXCEPT ![p].poisoned = TRUE]
          /\ DirectoryUnchanged
    /\ UNCHANGED <<litter, ext>>

\* A rollback whose sync fails and that still answers EIO.
sync_roll_back_unsynced(p) ==
    /\ step[p] = "rollback_sync"
    /\ \/ /\ DirectorySynced
          /\ Return(p, "EIO")
          /\ UNCHANGED auth
       \/ /\ Return(p, "EIO")
          /\ auth' = [auth EXCEPT ![p].poisoned = TRUE]
          /\ UNCHANGED disk
    /\ UNCHANGED <<live, litter, ext>>

sync_roll_back(p) ==
    /\ step[p] = "rollback_sync"
    /\ \/ /\ DirectorySynced
          /\ Return(p, "EIO")
          /\ UNCHANGED auth
       \/ /\ Return(p, "EDURABILITY")
          /\ auth' = [auth EXCEPT ![p].poisoned = TRUE]
          /\ UNCHANGED disk
    /\ UNCHANGED <<live, litter, ext>>

-----------------------------------------------------------------------------
(* Recovery: choose between current and .previous.                         *)

\* The slot recovery takes from a directory, or why it takes none.  An entry
\* that could not be read (not in readable) is no candidate.
Selected(dir, readable, ck) ==
    LET ok(s) == s \in readable /\ satisfies_floor(dir[s], ck) IN
    IF ok("previous") /\ (~ok("current") \/ dir["previous"].rev > dir["current"].rev)
    THEN "previous"
    ELSE IF ok("previous") /\ dir["previous"].rev = dir["current"].rev
                           /\ dir["previous"] # dir["current"] THEN "ESTALE"
    ELSE IF ok("current") THEN "current"
    ELSE IF \E s \in readable : dir[s] # NoManifest THEN "ESTALE" ELSE "EIO"

recover_select(p) ==
    /\ step[p] = "check" /\ ~litter /\ req[p].op = "recover"
    /\ \E readable \in Readable :
         LET s == Selected(live, readable, req[p].ck) IN
         \/ /\ s = "current"
            /\ req' = [req EXCEPT ![p].man = live[s]]
            /\ Goto(p, "resync")
            /\ UNCHANGED lock
         \/ /\ s = "previous"
            /\ req' = [req EXCEPT ![p].man = live[s]]
            /\ Goto(p, "promote")
            /\ UNCHANGED lock
         \/ /\ s \notin Slot
            /\ Return(p, s)
    /\ UNCHANGED <<live, disk, litter, auth, ext>>

\* .previous is copied to a synced temporary, which replaces current.
promote_previous(p) ==
    /\ step[p] = "promote"
    /\ \/ /\ ~litter
          /\ litter' = TRUE
          /\ UNCHANGED <<live, disk, auth, lock, req, step>>
       \/ /\ litter
          /\ live' = Put(live, "current", req[p].man)
          /\ disk' = MayHold(disk, "current", req[p].man)
          /\ litter' = FALSE
          /\ Goto(p, "promote_check")
          /\ UNCHANGED <<auth, lock, req>>
       \/ GiveUp(p)
    /\ UNCHANGED ext

\* A promotion that cannot be verified or synced poisons the authority.
promote_verify(p) ==
    /\ step[p] = "promote_check"
    /\ \/ /\ Goto(p, "promote_sync")
          /\ UNCHANGED <<auth, lock, req>>
       \/ /\ Return(p, "EDURABILITY")
          /\ auth' = [auth EXCEPT ![p].poisoned = TRUE]
    /\ UNCHANGED <<live, disk, litter, ext>>

promote_commit(p) ==
    /\ step[p] = "promote_sync"
    /\ \/ /\ DirectorySynced
          /\ Return(p, "OK")
          /\ Observed(p, req[p].man)
       \/ /\ Return(p, "EDURABILITY")
          /\ auth' = [auth EXCEPT ![p].poisoned = TRUE]
          /\ UNCHANGED disk
    /\ UNCHANGED <<live, litter, ext>>

-----------------------------------------------------------------------------
(* The caller after the call, and the faults.                              *)

\* After a save or a recovery that returned OK the caller moves the external
\* checkpoint from the value it read to the one returned, if nobody else did.
CallerPublishes(p) ==
    /\ step[p] = "returned"
    /\ Goto(p, "idle")
    /\ req' = [req EXCEPT ![p] = NoOperation]
    /\ ext' = IF /\ req[p].res = "OK" /\ req[p].op # "load"
                 /\ ext = req[p].seen
              THEN req[p].man ELSE ext
    /\ UNCHANGED <<live, disk, litter, lock, auth>>

\* A process dies; the kernel drops its lock, its temporaries stay.
Kill(p) ==
    /\ auth[p].open /\ step[p] # "idle"
    /\ auth' = [auth EXCEPT ![p] = ClosedAuthority]
    /\ Goto(p, "idle")
    /\ req' = [req EXCEPT ![p] = NoOperation]
    /\ lock' = IF lock = p THEN NoProc ELSE lock
    /\ UNCHANGED <<live, disk, litter, ext>>

\* Power loss: entries come back with any value since the last sync.
AfterPowerLoss == [current: disk["current"], previous: disk["previous"]]
PowerLoss ==
    /\ \E l \in AfterPowerLoss :
         /\ live' = l
         /\ disk' = [s \in Slot |-> {l[s]}]
    /\ litter' \in BOOLEAN
    /\ lock' = NoProc
    /\ auth' = [p \in Proc |-> ClosedAuthority]
    /\ step' = [p \in Proc |-> "idle"]
    /\ req' = [p \in Proc |-> NoOperation]
    /\ UNCHANGED ext

StoreNext ==
    \/ \E p \in Proc :
         \/ authority_open_v2(p) \/ authority_destroy(p) \/ Call(p)
         \/ BindRefused(p) \/ LockDirectory(p) \/ cleanup_internal_artifacts(p)
         \/ manifest_load_v2(p)
         \/ save_check(p) \/ sync_existing(p) \/ write_temporary(p)
         \/ install_previous(p) \/ sync_previous(p) \/ install_signed_v2(p)
         \/ verify_installed(p) \/ commit_sync(p)
         \/ roll_back(p) \/ sync_roll_back(p)
         \/ recover_select(p) \/ promote_previous(p)
         \/ promote_verify(p) \/ promote_commit(p)
         \/ CallerPublishes(p) \/ Kill(p)
    \/ PowerLoss

StoreSpec == StoreInit /\ [][StoreNext]_storeVars

-----------------------------------------------------------------------------
(* Properties.                                                             *)

\* Whatever a power loss leaves of the directory, recovery with the external
\* checkpoint finds a manifest at or above it: no order of failed syncs,
\* rollbacks, kills and concurrent saves loses a published manifest.
PublishedIsRecoverable ==
    ext # NoManifest =>
        \A l \in AfterPowerLoss : Selected(l, Slot, ext) \in Slot

\* A save that answers EIO left the old manifest: the entry holds what it held
\* when the call took the lock, also after a power loss.
EioKeepsOldManifest ==
    [][\A p \in Proc :
          (lock = p /\ req[p].op = "save" /\ req[p].res # "EIO" /\ req'[p].res = "EIO")
              => /\ live'["current"] = req[p].from
                 /\ disk'["current"] \subseteq req[p].fromDisk]_storeVars

\* No call hands out a manifest older than the checkpoint published by then,
\* although its caller read the checkpoint before it waited for the lock.
NothingOlderThanPublished ==
    [][\A p \in Proc :
          (req[p].res # "OK" /\ req'[p].res = "OK")
              => req'[p].man = ext \/ req'[p].man.rev > ext.rev]_storeVars

\* The manifest never goes back: neither a failed save nor a late reader puts
\* an older one in the place of a newer (install_signed_v2, bind_v2_call).
ManifestNeverRegresses == EioKeepsOldManifest /\ NothingOlderThanPublished
=============================================================================
