-------------------------- MODULE MCServerStorage ---------------------------
(* Small instances of ServerStorage for TLC.                                 *)
EXTENDS ServerStorage

CONSTANTS u1, u2, w1, f1

MCAccount == [w \in {w1} |-> u1]
Mix(n, b, ws) == [clients |-> n, backups |-> b, active |-> ws]
MCMixes == {Mix(3, 0, {}), Mix(1, 0, {w1}), Mix(0, 1, {w1}), Mix(0, 2, {})}
ManyClients == {Mix(5, 0, {})}
ManyBackups == {Mix(0, 3, {})}
OneWorker == {Mix(0, 0, {w1})}
=============================================================================
