-------------------------- MODULE JuliusPermissions --------------------------
(***************************************************************************)
(* The permissions daemon (julius_permissions.c).  A request of a client's *)
(* thread is looked up, changed and answered for under perms_lock, so it   *)
(* is one step.  The table is never written to a file: a restart has the   *)
(* defaults.                                                               *)
(***************************************************************************)
EXTENDS Integers, Sequences, FiniteSets

CONSTANTS Perms,     \* pairs of an app and a type
          Defaults,  \* those granted from the start; their order tells nothing
          MaxPerms   \* MAX_PERMS

VARIABLES perms,    \* the table
          granted,  \* history: those whose last request since the start was a
                    \* GRANT, or that were granted by default and never denied
          lost      \* history: those granted while the table was full

vars == <<perms, granted, lost>>

InOrder == CHOOSE f \in [1..Cardinality(Defaults) -> Defaults] :
             \A p \in Defaults : \E i \in 1..Cardinality(Defaults) : f[i] = p
load_defaults == [i \in 1..Cardinality(Defaults) |-> [perm |-> InOrder[i], status |-> "granted"]]

Init == perms = load_defaults /\ granted = Defaults /\ lost = {}

Matches(p) == {i \in 1..Len(perms) : perms[i].perm = p}

\* check_permission(): the first that matches
Status(p) ==
  IF Matches(p) = {} THEN "unknown"
  ELSE perms[CHOOSE i \in Matches(p) : \A j \in Matches(p) : i <= j].status

SetFirst(p, status) ==
  \E i \in Matches(p) : /\ \A j \in Matches(p) : i <= j
                        /\ perms' = [perms EXCEPT ![i].status = status]

\* A new entry, if there is room; the answer is granted = 1 in any case.
AddGranted(p) ==
  IF Len(perms) < MaxPerms
  THEN perms' = Append(perms, [perm |-> p, status |-> "granted"]) /\ UNCHANGED lost
  ELSE lost' = lost \cup {p} /\ UNCHANGED perms

\* Mutant of grant_permission: a denied entry is not taken for a match.
grant_permission_new(p) ==
  /\ IF Status(p) = "granted" THEN UNCHANGED <<perms, lost>> ELSE AddGranted(p)
  /\ granted' = granted \cup {p}

grant_permission(p) ==
  /\ IF Matches(p) # {} THEN SetFirst(p, "granted") /\ UNCHANGED lost ELSE AddGranted(p)
  /\ granted' = granted \cup {p}

deny_permission(p) ==
  /\ IF Matches(p) # {} THEN SetFirst(p, "denied") ELSE UNCHANGED perms
  /\ granted' = granted \ {p}
  /\ lost' = lost \ {p}

\* A write to a client that has gone ends the daemon; julius_init starts it with the
\* device, nobody does before.
Restart == perms' = load_defaults /\ granted' = Defaults /\ lost' = {}

Next == (\E p \in Perms : grant_permission(p) \/ deny_permission(p)) \/ Restart

\* CHECK answers what the last GRANT or DENY since the start said, except of a
\* GRANT that the full table did not take.
Honest == \A p \in Perms : Status(p) = "granted" <=> p \in granted \ lost
=============================================================================
