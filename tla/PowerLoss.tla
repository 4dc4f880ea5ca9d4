------------------------------- MODULE PowerLoss -------------------------------
(***************************************************************************)
(* The Store on a machine that may lose power: of what the system calls    *)
(* did since the last sync_all, a file system need not keep all. The code  *)
(* syncs every file it writes, and never a directory: the file system is   *)
(* taken to be a journaled one, where all calls become durable in order:   *)
(* a sync of any file makes every earlier creation, rename, removal,       *)
(* truncation and append durable.                                          *)
(***************************************************************************)
EXTENDS DataInv

VARIABLES
  surviving,  \* the files that a power loss now may leave, each a record
  promise     \* for each key, the values a recovered store may return

pvars == <<vars, surviving, promise>>

Disk == [wal |-> wal, segs |-> segs, tmps |-> tmps, marker |-> marker,
         markerTmp |-> markerTmp]

(* Wal::append leaves the sync out.                                        *)
SyncPoints_bug == {"wal_trunc_sync", "flush_finish", "compact_finish",
                   "marker_create"}

(* The points whose system calls end with sync_all.                        *)
SyncPoints == {"wal_sync", "wal_trunc_sync", "flush_finish",
               "compact_finish", "marker_create"}

(* Replay and verify cut a torn tail off, and sync the log too.            *)
Syncs ==
  \/ pc \in SyncPoints /\ ret' # "err" /\ pc' \notin {"down", "marker_undo"}
  \/ pc \in {"idle", "replay"} /\ Len(wal') < Len(wal)

(* The files in which this step has become durable, entirely; or, of the   *)
(* data that an append adds, in part.                                      *)
Reached ==
  {Disk'} \cup
    IF At("wal_append") /\ wal' # wal
    THEN {[Disk' EXCEPT !.wal = Append(wal, Torn)]}
    ELSE {}

Surviving ==
  surviving' = IF Syncs THEN {Disk'} ELSE surviving \cup Reached

(* As in Durability, except that reading a write which was never           *)
(* acknowledged promises nothing: replay does not sync what it reads.      *)
Promise ==
  promise' =
    CASE call.op = "write" /\ pc' = "idle" /\ ret' = "ok" ->
           [promise EXCEPT ![call.key] = {Live(call.cell)}]
      [] At("wal_append") /\ pc' = "wal_sync" ->
           [promise EXCEPT ![call.key] = @ \cup {Live(call.cell)}]
      [] OTHER -> promise

(* The machine stops, and starts with one of the possible disks.           *)
LosePower ==
  /\ \E d \in surviving :
       /\ wal' = d.wal /\ segs' = d.segs /\ tmps' = d.tmps
       /\ marker' = d.marker /\ markerTmp' = d.markerTmp
       /\ surviving' = {d}
  /\ Forget
  /\ pc' = "down" /\ call' = NoCall /\ todo' = {} /\ ret' = "none"
  /\ UNCHANGED promise

PInit ==
  /\ Init
  /\ surviving = {Disk}
  /\ promise = [k \in Keys |-> {Absent}]

PNext == (Next /\ Surviving /\ Promise) \/ LosePower

PSpec == PInit /\ [][PNext]_pvars

-----------------------------------------------------------------------------
(* store.rs:470: "Only clear WAL AFTER the segment is durable, renamed and *)
(* successfully validated": whatever a power loss leaves, reopening        *)
(* recovers what the client was told.                                      *)
AcknowledgedSurvivesPowerLoss == \A k \in Keys : Recovered(k) \in promise[k]

(* Unless a call of open itself fails, the store can be reopened after     *)
(* every power loss: nothing is found half done that is refused.           *)
PowerLossIsForgiven == ret # "open_err"

-----------------------------------------------------------------------------
(* Inductive beside LogInv *)

(* The Store if its files were those of d.                                 *)
After(d) == INSTANCE Store WITH
  wal <- d.wal, segs <- d.segs, tmps <- d.tmps,
  marker <- d.marker, markerTmp <- d.markerTmp

Disks == [wal : Seq(Records \cup {Torn}),
          segs : [Gens -> Maps \cup {NoFile}],
          tmps : [Gens -> Maps \cup {Partial, NoFile}],
          marker : Markers,
          markerTmp : BOOLEAN]

(* Nothing on the disk stops Store::open.                                  *)
Sound(d) ==
  /\ \A i \in TornAt(d.wal) : i = Len(d.wal)
  /\ d.marker # NoMarker => d.marker.output \in Gens
  /\ After(d)!Recoverable

(* Whatever disk is left can be opened and holds what was promised, as do  *)
(* the memory and the files of the running store.                          *)
PowerInv ==
  /\ promise \in [Keys -> SUBSET (Vals \cup {Absent})]
  /\ surviving \subseteq Disks
  /\ \A k \in Keys : Views(k) \subseteq promise[k]
  /\ \A d \in surviving :
       Sound(d) /\ \A k \in Keys : After(d)!Recovered(k) \in promise[k]

=============================================================================
