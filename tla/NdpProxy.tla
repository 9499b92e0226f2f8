------------------------------ MODULE NdpProxy ------------------------------
(***************************************************************************)
(* NdpProxy: create_vm, delete_vm and recovery change the map of ranges and *)
(* rewrite ndppd's configuration from it.  The mutex of the map is released *)
(* between the change and the rewrite, and held during the rewrite and the  *)
(* restart of ndppd.  A call may be dropped at any await, and what it has   *)
(* handed to a blocking thread or to systemctl still happens, whenever.     *)
(***************************************************************************)
CONSTANTS
    Taps,      \* TAP interfaces
    NoRange,   \* a tap without a range
    Range1,    \* the range a VM gets
    Torn,      \* a configuration file that is cut off or mixed up
    Callers,   \* calls of add_range and delete_range under way at once
    NoCaller   \* the mutex is free

ASSUME NdpAssumption ==
    /\ NoCaller \notin Callers
    /\ Torn \notin [Taps -> {NoRange, Range1}]

VARIABLES
    ranges,    \* NdpProxy::ranges
    snapshot,  \* the configuration text that update_config has built
    conf,      \* /etc/ndppd.conf
    served,    \* the configuration ndppd runs with
    ndpCall,   \* where each call is
    ndpLock,   \* who holds the mutex across awaits
    late,      \* texts that dropped calls have still to write
    overlaid,  \* history: such a text hit the file after the last update began to write it
    stale      \* history: the last update that ended has not put its text into ndppd

ndpVars == <<ranges, snapshot, conf, served, ndpCall, ndpLock, late, overlaid, stale>>

NoRanges == [t \in Taps |-> NoRange]

NdpInit ==
    /\ ranges = NoRanges
    /\ snapshot = NoRanges
    /\ conf = NoRanges
    /\ served = NoRanges
    /\ ndpCall = [c \in Callers |-> "idle"]
    /\ ndpLock = NoCaller
    /\ late = {}
    /\ overlaid = FALSE
    /\ stale = FALSE

NdpGoto(c, pc) == ndpCall' = [ndpCall EXCEPT ![c] = pc]

\* The map is changed under the mutex: add_range, delete_range.
ChangeRange(c, t, r) ==
    /\ ndpCall[c] = "idle"
    /\ ndpLock = NoCaller
    /\ ranges' = [ranges EXCEPT ![t] = r]
    /\ NdpGoto(c, "update")
    /\ UNCHANGED <<snapshot, conf, served, ndpLock, late, overlaid, stale>>

\* Mutant: the mutex is released once the text is built.
BuildUnlocked(c) ==
    /\ ndpCall[c] = "update"
    /\ ndpLock = NoCaller
    /\ snapshot' = ranges
    /\ NdpGoto(c, "write")
    /\ UNCHANGED <<ranges, conf, served, ndpLock, late, overlaid, stale>>

\* update_config locks the map and builds the text.
BuildConfig(c) ==
    /\ ndpCall[c] = "update"
    /\ ndpLock = NoCaller
    /\ ndpLock' = c
    /\ snapshot' = ranges
    /\ NdpGoto(c, "write")
    /\ UNCHANGED <<ranges, conf, served, late, overlaid, stale>>

\* tokio::fs::write: a blocking thread truncates the file and fills it.
TruncateConf(c) ==
    /\ ndpCall[c] = "write"
    /\ conf' = Torn
    /\ overlaid' = FALSE
    /\ NdpGoto(c, "fill")
    /\ UNCHANGED <<ranges, snapshot, served, ndpLock, late, stale>>

FillConf(c) ==
    /\ ndpCall[c] = "fill"
    /\ conf' \in {snapshot} \cup (IF overlaid THEN {Torn} ELSE {})
    /\ NdpGoto(c, "restart")
    /\ UNCHANGED <<ranges, snapshot, served, ndpLock, late, overlaid, stale>>

\* ndppd reads the file when it is restarted.
RestartNdppd(c) ==
    /\ ndpCall[c] = "restart"
    /\ served' = conf
    /\ NdpGoto(c, "idle")
    /\ ndpLock' = NoCaller
    /\ stale' = overlaid
    /\ UNCHANGED <<ranges, snapshot, conf, late, overlaid>>

\* Mutant: an update that fails keeps the mutex.
UpdateFailsLocked(c) ==
    /\ ndpCall[c] \in {"write", "fill", "restart"}
    /\ NdpGoto(c, "idle")
    /\ stale' = TRUE
    /\ served' \in {served} \cup (IF ndpCall[c] = "restart" THEN {NoRanges} ELSE {})
    /\ UNCHANGED <<ranges, snapshot, conf, ndpLock, late, overlaid>>

\* The file cannot be written, or ndppd does not come back: only logged.
UpdateFails(c) ==
    /\ ndpCall[c] \in {"write", "fill", "restart"}
    /\ NdpGoto(c, "idle")
    /\ ndpLock' = NoCaller
    /\ stale' = TRUE
    /\ served' \in {served} \cup (IF ndpCall[c] = "restart" THEN {NoRanges} ELSE {})
    /\ UNCHANGED <<ranges, snapshot, conf, late, overlaid>>

\* The caller disconnects and tonic drops the future: the mutex is free again,
\* while the blocking write goes on by itself.
CallDropped(c) ==
    /\ ndpCall[c] # "idle"
    /\ NdpGoto(c, "idle")
    /\ ndpLock' = IF ndpLock = c THEN NoCaller ELSE ndpLock
    /\ late' = IF ndpCall[c] \in {"write", "fill"} THEN late \cup {snapshot} ELSE late
    /\ stale' = TRUE
    /\ UNCHANGED <<ranges, snapshot, conf, served, overlaid>>

\* The write of a dropped call: the truncation, and then the text, which may
\* fall into another call's write and be mixed up with it.
LateTruncate ==
    /\ late # {}
    /\ conf' = Torn
    /\ overlaid' = TRUE
    /\ UNCHANGED <<ranges, snapshot, served, ndpCall, ndpLock, late, stale>>

LateFill(text) ==
    /\ late' = late \ {text}
    /\ conf' \in {text, Torn}
    /\ overlaid' = TRUE
    /\ UNCHANGED <<ranges, snapshot, served, ndpCall, ndpLock, stale>>

\* The systemctl of a dropped call ends, or the host restarts ndppd: it reads
\* whatever the file holds.
NdppdRestarts ==
    /\ served' = conf
    /\ stale' = (stale \/ overlaid)
    /\ UNCHANGED <<ranges, snapshot, conf, ndpCall, ndpLock, late, overlaid>>

\* The orchestrator is restarted: NdpProxy::new has an empty map, while the
\* file and ndppd stay as they are until the next update.  Recovery calls
\* add_range for the VMs that run, and for no other.
NdpProxyNew ==
    /\ ranges' = NoRanges
    /\ ndpCall' = [c \in Callers |-> "idle"]
    /\ ndpLock' = NoCaller
    /\ late' = {}
    /\ stale' = TRUE
    /\ UNCHANGED <<snapshot, conf, served, overlaid>>

NdpNext ==
    \/ \E c \in Callers :
          \/ \E t \in Taps, r \in {NoRange, Range1} : ChangeRange(c, t, r)
          \/ BuildConfig(c) \/ TruncateConf(c) \/ FillConf(c) \/ RestartNdppd(c)
          \/ UpdateFails(c) \/ CallDropped(c)
    \/ LateTruncate \/ (\E text \in late : LateFill(text))
    \/ NdppdRestarts \/ NdpProxyNew

-----------------------------------------------------------------------------
(* Properties *)

\* When no call is under way and the last update worked, ndppd announces
\* exactly the ranges of the map, although another call may have changed the
\* map between a call's change and its update, and whatever failed, was
\* dropped or restarted before it.  Until the next update works the two may
\* differ: after an update that failed or was dropped, after a restart of the
\* orchestrator, whose new map is empty, and after an update whose file the
\* late write of a dropped call has hit before ndppd read it.
NdpServesRanges ==
    (\A c \in Callers : ndpCall[c] = "idle") /\ ~stale => served = ranges

=============================================================================
