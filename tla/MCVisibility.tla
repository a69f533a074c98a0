---------------------------- MODULE MCVisibility ----------------------------
(* Instances of Visibility for TLC: a server `remote` whose directory lists  *)
(* its community `forum`.                                                    *)
EXTENDS Visibility

CONSTANTS remote, forum

Home == [x \in {forum} |-> remote]
OwnList == [x \in {remote} |-> {forum}]
=============================================================================
