------------------------------ MODULE MCRestart ------------------------------
(* Model values and bounds for Restart: one channel of each type. *)
EXTENDS Restart

CONSTANTS c1, c2, c3, c4, t1, t2

MCChans == {c1, c2, c3, c4}
MCCallers == {t1, t2}
MCChanType == c1 :> "ManagerPeerReceivePush" @@ c2 :> "ManagerPeerReceivePull"
              @@ c3 :> "ManagerPeerCreatePush" @@ c4 :> "ManagerPeerCreatePull"
MCConfigured == {c3, c4}

CallerSymmetry == Permutations(MCCallers)

=============================================================================
