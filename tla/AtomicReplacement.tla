--------------------------- MODULE AtomicReplacement ---------------------------
(***************************************************************************)
(* What a deployment plan promises whoever executes it: the targets change *)
(* only while an attempt is open; an attempt ends either with every target *)
(* on the old release or with a decision in favour of the new one, taken   *)
(* when every target serves it and never reconsidered.                     *)
(***************************************************************************)
VARIABLES phase,   \* "open", "undone", "decided" or "done"
          fleet    \* "old" or "new" when the targets agree, else "mixed"

absVars == <<phase, fleet>>

AbsInit == phase = "undone" /\ fleet = "old"

Open == phase = "undone" /\ phase' = "open" /\ UNCHANGED fleet

Change == phase = "open" /\ fleet' \in {"old", "new", "mixed"} /\ UNCHANGED phase

Undo == phase = "open" /\ fleet = "old" /\ phase' = "undone" /\ UNCHANGED fleet

Decide == phase = "open" /\ fleet = "new" /\ phase' = "decided" /\ UNCHANGED fleet

Finish == phase = "decided" /\ phase' = "done" /\ UNCHANGED fleet

AbsNext == Open \/ Change \/ Undo \/ Decide \/ Finish

AbsSpec == AbsInit /\ [][AbsNext]_absVars
=============================================================================
