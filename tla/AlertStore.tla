----------------------------- MODULE AlertStore ------------------------------
(* The two stores of processed alerts: a map in memory, and a table with one  *)
(* row per fingerprint. Saves and the periodic clean-up run concurrently.     *)
EXTENDS Naturals

CONSTANTS Kinds,         \* the stores looked at: "memory", "postgres"
          Fingerprints, Handlers,
          Retention,     \* age at which a resolved alert may be removed
          MaxTime, MaxSaves, NoRow

VARIABLES
  kind,     \* which store is configured
  rows,     \* what it holds of each fingerprint
  now,
  save,     \* per handler: the call of Save under way
  cleaner,  \* the clean-up: its cutoff, the keys it has not visited, its find
  quiet,    \* per fingerprint: the status of the last Save that returned and
            \* met neither another Save nor the clean-up, or "unsure"
  saves
vars == <<kind, rows, now, save, cleaner, quiet, saves>>

Statuses == {"firing", "resolved"}
Idle == [phase |-> "idle"]
Init ==
  /\ kind \in Kinds
  /\ rows = [f \in Fingerprints |-> NoRow]
  /\ now = 0
  /\ save = [h \in Handlers |-> Idle] /\ cleaner = Idle
  /\ quiet = [f \in Fingerprints |-> "unsure"] /\ saves = 0

Time == now < MaxTime /\ now' = now + 1 /\ UNCHANGED <<kind, rows, save, cleaner, quiet, saves>>

-----------------------------------------------------------------------------
(* Save. The map stores in one step. The table is read first: a row that is   *)
(* found is updated, else one is inserted, which the unique index refuses if  *)
(* another Save has inserted it meanwhile.                                    *)
Meets(f) == cleaner # Idle \/ \E h \in Handlers : save[h] # Idle /\ save[h].of = f
BeginSave(h, f, status) ==
  /\ save[h] = Idle /\ saves < MaxSaves
  /\ save' = [g \in Handlers |->
       IF g = h THEN [phase |-> IF kind = "memory" THEN "write" ELSE "read", of |-> f,
                      status |-> status, alone |-> ~Meets(f)]
       ELSE IF save[g] # Idle /\ save[g].of = f THEN [save[g] EXCEPT !.alone = FALSE]
       ELSE save[g]]
  /\ quiet' = [quiet EXCEPT ![f] = "unsure"]
  /\ saves' = saves + 1
  /\ UNCHANGED <<kind, rows, now, cleaner>>

First(h) ==
  /\ save[h].phase = "read"
  /\ save' = [save EXCEPT ![h].phase = IF rows[save[h].of] = NoRow THEN "insert" ELSE "update"]
  /\ UNCHANGED <<kind, rows, now, cleaner, quiet, saves>>

Written(h) == [status |-> save[h].status, at |-> now]
Stored(h) ==
  CASE save[h].phase = "write" -> Written(h)
    [] save[h].phase = "insert" /\ rows[save[h].of] = NoRow -> Written(h)
    [] save[h].phase = "update" /\ rows[save[h].of] # NoRow -> Written(h)
    [] OTHER -> rows[save[h].of] \* refused by the index, or no row is affected
Write(h) ==
  /\ save[h].phase \in {"write", "insert", "update"}
  /\ rows' = [rows EXCEPT ![save[h].of] = Stored(h)]
  /\ quiet' = [quiet EXCEPT ![save[h].of] = IF save[h].alone THEN save[h].status ELSE "unsure"]
  /\ save' = [save EXCEPT ![h] = Idle]
  /\ UNCHANGED <<kind, now, cleaner, saves>>

SaveFails(h) == \* the database; what was stored stays
  /\ save[h] # Idle /\ kind = "postgres"
  /\ save' = [save EXCEPT ![h] = Idle]
  /\ UNCHANGED <<kind, rows, now, cleaner, quiet, saves>>

-----------------------------------------------------------------------------
(* The clean-up. The table deletes the expired rows in one statement. The map *)
(* is ranged over: an entry is looked at in one step and its key deleted in   *)
(* the next, whatever is stored under it by then.                             *)
AnyAge(f, cutoff) == rows[f] # NoRow /\ rows[f].at < cutoff
Expired(f, cutoff) == rows[f] # NoRow /\ rows[f].status = "resolved" /\ rows[f].at < cutoff
Disturbed == [h \in Handlers |-> IF save[h] = Idle THEN Idle ELSE [save[h] EXCEPT !.alone = FALSE]]
CleanTable ==
  /\ kind = "postgres" /\ now >= Retention
  /\ rows' = [f \in Fingerprints |-> IF Expired(f, now - Retention) THEN NoRow ELSE rows[f]]
  /\ save' = Disturbed
  /\ UNCHANGED <<kind, now, cleaner, quiet, saves>>
BeginRange ==
  /\ kind = "memory" /\ cleaner = Idle /\ now >= Retention
  /\ cleaner' = [phase |-> "range", cutoff |-> now - Retention, left |-> Fingerprints]
  /\ save' = Disturbed
  /\ UNCHANGED <<kind, rows, now, quiet, saves>>
Visit(f) ==
  /\ cleaner.phase = "range" /\ f \in cleaner.left
  /\ cleaner' = IF Expired(f, cleaner.cutoff)
                THEN [phase |-> "delete", cutoff |-> cleaner.cutoff,
                      left |-> cleaner.left \ {f}, found |-> f]
                ELSE [cleaner EXCEPT !.left = @ \ {f}]
  /\ UNCHANGED <<kind, rows, now, save, quiet, saves>>
Delete ==
  /\ cleaner.phase = "delete"
  /\ rows' = [rows EXCEPT ![cleaner.found] = NoRow]
  /\ cleaner' = [phase |-> "range", cutoff |-> cleaner.cutoff, left |-> cleaner.left]
  /\ UNCHANGED <<kind, now, save, quiet, saves>>
EndRange ==
  /\ cleaner.phase = "range" /\ cleaner.left = {}
  /\ cleaner' = Idle
  /\ UNCHANGED <<kind, rows, now, save, quiet, saves>>

Next ==
  \/ Time
  \/ \E h \in Handlers, f \in Fingerprints, status \in Statuses : BeginSave(h, f, status)
  \/ \E h \in Handlers : First(h) \/ Write(h) \/ SaveFails(h)
  \/ CleanTable \/ BeginRange \/ (\E f \in Fingerprints : Visit(f)) \/ Delete \/ EndRange
Spec == Init /\ [][Next]_vars

-----------------------------------------------------------------------------
(* GetActiveAlerts by status. In memory the status filter also goes through   *)
(* the filters of labels, and no alert is labelled with its status.           *)
Held == {f \in Fingerprints : rows[f] # NoRow}
Listed(status) ==
  IF kind = "memory" THEN {} ELSE {f \in Held : status \in {"all", rows[f].status}}

(* A Save that returned and met no other call leaves the alert with its       *)
(* status in either store, and a firing one is never cleaned up later         *)
(* (storage.go:33-48, 163-179, pg_storage.go:115-131, 197-212).               *)
SavedIsFound ==
  \A f \in Fingerprints :
    /\ quiet[f] = "firing" => rows[f] # NoRow /\ rows[f].status = "firing"
    /\ quiet[f] = "resolved" => rows[f] = NoRow \/ rows[f].status = "resolved"

(* "all" lists the resolved alerts too (storage.go:54).                       *)
AllListsAll == Listed("all") = Held
=============================================================================
