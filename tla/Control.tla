-------------------------------- MODULE Control --------------------------------
(***************************************************************************)
(* The Control record the server keeps behind its RwLock                   *)
(* (crates/server/src/state.rs) and what each holder of the write lock     *)
(* makes of it.  A configuration is the part a reload applies: [risk]      *)
(* kill_switch, approval_mode, and the rest of [risk] and [hook] as what   *)
(* the gate makes of them.                                                 *)
(***************************************************************************)

CONSTANT Config   \* validated configurations

ASSUME ConfigAssumption ==
    \A c \in Config : c.kill \in BOOLEAN /\ c.approval_mode \in {"auto", "manual"}

Mode == {"paper", "live"}
ControlRecord == [mode : Mode, kill : BOOLEAN, cfg : Config]

\* AppState::new: paper mode, everything else from the file as loaded.
Boot(c) == [mode |-> "paper", kill |-> c.kill, cfg |-> c]

\* post_kill, holding the lock.
WithKill(ctl, engage) == [ctl EXCEPT !.kill = engage]

\* post_mode, holding the lock.
WithMode(ctl, m) == [ctl EXCEPT !.mode = m]

\* Mutant: the file's kill switch replaces the running one.
MutReloaded(ctl, c) == [ctl EXCEPT !.kill = c.kill, !.cfg = c]

\* apply_reload, holding the lock: keep_kill, then risk, allowlist, approval_mode.
Reloaded(ctl, c) == [ctl EXCEPT !.kill = @ \/ c.kill, !.cfg = c]
================================================================================
