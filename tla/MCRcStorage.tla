---------------------------- MODULE MCRcStorage ----------------------------
(***************************************************************************)
(* RcStorage on small instances: a few aircraft, slots and generations.    *)
(***************************************************************************)
EXTENDS RcStorage, TLC

\* The old partition is never read again once it has been copied, the owner's
\* answer is only shown, app_main's variables end with it, and maintenance
\* mode does not use the installed key: states that differ only in these are
\* one state.
Relevant ==
    <<slot, selected, job, migrated, session, fmk, enrollment, phase,
      IF commit.at = "store" THEN answer["pair"] ELSE "none",
      IF migrated THEN <<>> ELSE <<legacy>>,
      IF phase = "boot" THEN <<boot, mode, index>> ELSE <<>>,
      IF phase = "maintenance" THEN <<>> ELSE <<installed, chosen>>,
      unlocked, runtime, commit, overtaken>>

Symmetric == Permutations(Uid)
=============================================================================
