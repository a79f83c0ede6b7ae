---------------------------- MODULE MCFuseServer ----------------------------
(* Instances of FuseServer.  A cell of data is a number, and so is a name. *)
EXTENDS FuseServer

Nothing == {}
TwoNames == {101, 102}
OneTarget == {<<7>>}
OneText == {<<8, 9, 8, 9>>}
NearAndFar == {0, 3}
ToZero == {0}

(* A tree that only grows.                                                 *)
GrowTree == \E parent \in Dirs, name \in Names :
               fuseserver_create(parent, name) \/ fuseserver_mkdir(parent, name)
GrowTreeSpec == Init /\ [][GrowTree]_vars
=============================================================================
