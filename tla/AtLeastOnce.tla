----------------------------- MODULE AtLeastOnce -----------------------------
(***************************************************************************)
(* What the device promises for the user's edits: "This would make sure    *)
(* that the client information is sent at least once"                      *)
(* (doc/design/prototype_software.md:14).                                  *)
(*                                                                         *)
(* An outbox holds one request per entry, the last one saved.  Requests    *)
(* are copied from it to a network that delays, reorders, repeats and      *)
(* loses them.  One leaves the outbox when the server has seen it, when a  *)
(* later edit of its entry takes its place, or when its entry is excused.  *)
(* There are no files, retries, acks or restarts here: Messenger has those *)
(* and implements this.                                                    *)
(***************************************************************************)
CONSTANTS
  Key,      \* the entries
  Request,  \* records with a key
  NoEdit    \* no request

VARIABLES
  saving,   \* the edit on its way into the outbox
  outbox,   \* the requests the device still has to get to the server
  transit,  \* the requests the network may still hand to the server
  seen,     \* the requests the server has processed
  excused   \* the entries the promise is broken for

vars == <<saving, outbox, transit, seen, excused>>

Others(k) == {r \in outbox : r.key # k}

\* The user edits an entry: whatever went wrong for it before, this edit is owed.
Edit ==
  /\ saving = NoEdit
  /\ saving' \in Request
  /\ excused' = excused \ {saving'.key}
  /\ UNCHANGED <<outbox, transit, seen>>

\* The edit takes the place of the entry's earlier request.
Save ==
  /\ saving # NoEdit
  /\ outbox' = Others(saving.key) \cup {saving}
  /\ saving' = NoEdit
  /\ UNCHANGED <<transit, seen, excused>>

\* The edit never gets there, and may take the earlier request with it.
Spoil ==
  /\ saving # NoEdit
  /\ outbox' \in {outbox, Others(saving.key)}
  /\ saving' = NoEdit
  /\ UNCHANGED <<transit, seen, excused>>

\* Copies of some requests go to the network.
Send ==
  /\ \E b \in SUBSET outbox : transit' = transit \cup b
  /\ UNCHANGED <<saving, outbox, seen, excused>>

\* The server processes what the network hands it; the network may keep a copy.
See ==
  /\ \E b \in SUBSET transit :
       /\ seen' = seen \cup b
       /\ \E gone \in SUBSET b : transit' = transit \ gone
  /\ UNCHANGED <<saving, outbox, excused>>

\* Entries in the outbox are excused, or no longer.
Excuse ==
  /\ excused' \subseteq excused \cup {r.key : r \in outbox}
  /\ UNCHANGED <<saving, outbox, transit, seen>>

\* A request leaves the outbox.
Forget ==
  /\ \E r \in outbox :
       /\ r \in seen \/ r.key \in excused
       /\ outbox' = outbox \ {r}
  /\ UNCHANGED <<saving, transit, seen, excused>>

Init ==
  /\ saving = NoEdit
  /\ outbox = {} /\ transit = {} /\ seen = {} /\ excused = {}

Next == Edit \/ Save \/ Spoil \/ Send \/ See \/ Excuse \/ Forget

Spec == Init /\ [][Next]_vars
=============================================================================
