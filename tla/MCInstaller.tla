---------------------------- MODULE MCInstaller ----------------------------
(* The plugin's own installer for TLC (docs/en_us/pim.md): the update of its *)
(* file (ArchiveSwap), or the repair of its Python packages (DepsRepair).    *)
(* The gate lets an instance update itself only with its packages there, and *)
(* the two share nothing, so a behaviour is one of the two.                  *)
EXTENDS ArchiveSwap, DepsRepair

Untouched == started + reloads + catalogue = 0 /\ up /\ checkDue /\ loaded = 0
Unrepaired == at[1] = "none" /\ crashes = 0

MCInit == Init /\ DepsInit
MCNext == \/ Unrepaired /\ there = Packages /\ Next /\ UNCHANGED depsVars
          \/ Untouched /\ DepsNext /\ UNCHANGED vars
          \/ at[1] # "none" /\ AtRest /\ UNCHANGED <<vars, depsVars>>
MCSpec == MCInit /\ [][MCNext]_<<vars, depsVars>>
=============================================================================
