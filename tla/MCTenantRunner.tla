--------------------------- MODULE MCTenantRunner ---------------------------
(* Small instances of the tenants' booking job for TLC.                    *)
EXTENDS TenantRunner, TLC
=============================================================================
