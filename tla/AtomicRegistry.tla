--------------------------- MODULE AtomicRegistry ---------------------------
(***************************************************************************)
(* What the registry promises its callers: one durable value, changed only *)
(* by indivisible steps, each computed from the value it replaces.  A      *)
(* caller that crashes, times out or fails takes either the whole step or  *)
(* none of it.                                                             *)
(***************************************************************************)
EXTENDS RegistryData

VARIABLE file

AInit == file \in InitialDisks

(* A legacy array becomes schema v1 in one step.                           *)
AMigrate == MigrationOf(file, file')

(* A ready server is recorded under the next handle, on a free socket.     *)
ARegister == RegistrationOf(file, file')

(* The record of exactly one instance is removed.                          *)
ADeregister == DeletionOf(file, file')

ANext == AMigrate \/ ARegister \/ ADeregister

ASpec == AInit /\ [][ANext]_file

=============================================================================
