-------------------------- MODULE MCInstallSession --------------------------
(* The instances of InstallSession that TLC checks: two people with        *)
(* different answers, and enough sessions on each transport that one can   *)
(* fail, be refused or follow another.                                     *)
EXTENDS InstallSession

CONSTANTS alice, bob

MCAccounts == {alice, bob}
=============================================================================
