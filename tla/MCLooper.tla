------------------------------ MODULE MCLooper ------------------------------
(* Two descriptors, one below and one above the wake eventfd in the order  *)
(* of the interest list.  The .cfg files differ in who may call what.      *)
EXTENDS Looper

MCFds == {5, 7}
MCWakeFd == 6
MCEpollFd == 3
MCEpollFds == {3, 4}
MCBadFds == {-1, 3, 4}
MCIdents == {-1, 1}
MCIn == {{"in"}}
MCPollOrBlock == {0, -1}
MCAnyTimeout == {0, -1, 1}
MCFinite == {1}
=============================================================================
