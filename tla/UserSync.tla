------------------------------- MODULE UserSync -------------------------------
(***************************************************************************)
(* The controller composed with the agent that keeps its users in step     *)
(* with the panel.  The agent (kelinode-rs) is not part of the repository; *)
(* it is modelled from the commands control.rs accepts: it numbers the     *)
(* user table of each inbound with revisions, and sends configs, full      *)
(* snapshots and deltas between two revisions.                             *)
(*                                                                         *)
(* The control socket serves every client connection on its own thread, so *)
(* commands of different connections arrive in any order, a command whose  *)
(* answer was lost is sent again, and one that was never delivered is      *)
(* missing: every command may be computed from any published revisions,    *)
(* old ones included, any number of times.                                 *)
(***************************************************************************)
EXTENDS CoreController

CONSTANT PanelTables     \* the user tables the panel publishes

VARIABLE history         \* history[t][r]: the table published as revision r of t

sync_vars == <<vars, history>>

ASSUME PanelAssumption == PanelTables \subseteq UserTable

\* The delta from table x, revision b, to table y, revision r.
Diff(x, y, b, r) ==
  [full |-> None,
   added |-> [u \in Uuids |-> IF x[u] = None THEN y[u] ELSE None],
   updated |-> [u \in Uuids |-> IF x[u] # None /\ x[u] # y[u] THEN y[u] ELSE None],
   deleted |-> {u \in Uuids : x[u] # None /\ y[u] = None},
   base_revision |-> b, revision |-> r]

\* A full snapshot of table y, revision r.
Snapshot(y, r) ==
  [full |-> y, added |-> NoUsers, updated |-> NoUsers, deleted |-> {},
   base_revision |-> None, revision |-> r]

\* Config c with the users of each inbound t at revision at[t].
ConfigAt(c, at) ==
  [c EXCEPT !.inbounds =
     [t \in Tags |-> IF c.inbounds[t] = None THEN None
                     ELSE [c.inbounds[t] EXCEPT !.users = history[t][at[t]]]]]

SyncInit ==
  /\ Init
  /\ history = [t \in Tags |-> [r \in Revisions |-> None]]

\* The panel publishes a table under a fresh revision.
Publish(t, r, users) ==
  /\ history[t][r] = None
  /\ history' = [history EXCEPT ![t][r] = users]
  /\ UNCHANGED vars

SendDelta(t, b, r) ==
  /\ history[t][b] # None
  /\ history[t][r] # None
  /\ ApplyUserDelta(t, Diff(history[t][b], history[t][r], b, r))
  /\ UNCHANGED history

SendSnapshot(t, r) ==
  /\ history[t][r] # None
  /\ ApplyUserDelta(t, Snapshot(history[t][r], r))
  /\ UNCHANGED history

SendConfig(c, at) ==
  /\ \A t \in Present(c) : history[t][at[t]] # None
  /\ ApplyConfig(ConfigAt(c, at)) \/ ApplyRoutes(ConfigAt(c, at))
  /\ UNCHANGED history

SyncNext ==
  \/ \E t \in Tags, r \in Revisions, users \in PanelTables : Publish(t, r, users)
  \/ \E t \in Tags, b, r \in Revisions : SendDelta(t, b, r)
  \/ \E t \in Tags, r \in Revisions : SendSnapshot(t, r)
  \/ \E c \in Configs, at \in [Tags -> Revisions] : SendConfig(c, at)
  \/ Stop /\ UNCHANGED history

SyncSpec == SyncInit /\ [][SyncNext]_sync_vars

-----------------------------------------------------------------------------
\* The variables hold values of their types.
SyncTypeOK ==
  /\ active_fingerprint \in CoreConfig \cup {None}
  /\ status \in {"Stopped", "Running", "Failed"}
  /\ service \in CoreService \cup {None}
  /\ dns \in Cores \cup {None}
  /\ orphans \subseteq Ports
  /\ history \in [Tags -> [Revisions -> PanelTables \cup {None}]]

\* A listener that carries revision r accepts exactly the table the panel
\* published as r, however configs, snapshots and deltas were delayed,
\* repeated, reordered or lost (service.rs 525-550, 330-335, 472, 486).
RevisionNamesTable ==
  service # None =>
    \A t \in Tags :
      service.listeners[t] # None /\ service.user_revisions[t] # None =>
        service.listeners[t].users = history[t][service.user_revisions[t]]

\* As long as every delta names its base revision, the fingerprint of an
\* inbound is that of the table its listener accepts, so a config is taken
\* for unchanged users only when it is (service.rs 330, 350, 484, 541-544).
FingerprintsAreExact ==
  service # None =>
    \A t \in Tags : service.listeners[t] # None =>
      service.user_fingerprints[t] = service.listeners[t].users
=============================================================================
