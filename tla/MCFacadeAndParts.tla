---------------------------- MODULE MCFacadeAndParts ----------------------------
(***************************************************************************)
(* The facade and the parts it does not create, for the model checker.     *)
(* They share no state: a behaviour is one of the facade or of a single    *)
(* part, and what was not chosen stays in its initial state, where no fair *)
(* action of it is enabled.                                                *)
(***************************************************************************)
EXTENDS MCKVCacheManager, MCParts

VARIABLE facade  \* whether the facade was chosen

facadeAndPartsVars == <<managerVars, partsVars, facade>>

FacadeAndPartsInit ==
  /\ facade \in BOOLEAN
  /\ PartsInit /\ (facade => subject = "mapper")
  /\ ManagerInit

FacadeAndPartsNext ==
  /\ facade' = facade
  /\ \/ facade /\ ManagerNext /\ UNCHANGED partsVars
     \/ ~facade /\ PartsNext /\ UNCHANGED managerVars

FacadeAndPartsSpec ==
  /\ FacadeAndPartsInit /\ [][FacadeAndPartsNext]_facadeAndPartsVars
  /\ ManagerFairness

\* The variables of the facade and of every part keep their types.
FacadeAndPartsTypeOK == ManagerTypeOK /\ PartsTypeOK

=============================================================================
