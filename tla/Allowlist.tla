------------------------------ MODULE Allowlist ------------------------------
(***************************************************************************)
(* The origin allowlist, a function from origins to the keys trusted for   *)
(* them, {} for an origin that is not listed.  The manual stanzas of the   *)
(* configuration and the managed file of the discovery feed are merged by  *)
(* the same rule at config load (src/src/config.rs) and at a hot-swap      *)
(* (src/src/witness.rs).                                                   *)
(***************************************************************************)

\* Mutant of Effective: a managed stanza replaces the manual one.
EffectiveManagedWins(manual, managed) ==
    [o \in DOMAIN manual |-> IF managed[o] # {} THEN managed[o] ELSE manual[o]]

\* manual wins over managed.
Effective(manual, managed) ==
    [o \in DOMAIN manual |-> IF manual[o] # {} THEN manual[o] ELSE managed[o]]
=============================================================================
