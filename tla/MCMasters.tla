---------------------------- MODULE MCMasters ----------------------------
(***************************************************************************)
(* The master data of a site for TLC: the tree of its assets, and the      *)
(* suppliers and purchase requests of a part.  They share no row, so one   *)
(* moves while the other is where it began.                                *)
(***************************************************************************)
EXTENDS AssetHierarchy, Purchasing, TLC

MastersInit == AssetInit /\ PurchasingInit

NoAssets == Known = {} /\ requests = 0

MastersNext ==
    \/ PurchasingInit /\ AssetNext /\ UNCHANGED purchasingVars
    \/ NoAssets /\ PurchasingNext /\ UNCHANGED assetVars

MastersSpec == MastersInit /\ [][MastersNext]_<<assetVars, purchasingVars>>

\* Codes are interchangeable, and so are suppliers.
Symmetric == Permutations(Codes) \cup Permutations(Suppliers)
============================================================================
