----------------------------- MODULE MCControl -----------------------------
(***************************************************************************)
(* The control plane for TLC: the lifecycle manager, the workflow          *)
(* validator and its cycle detector, the annealing optimizer, the cloud    *)
(* managers, the Vault client and the deployment engine.  They share       *)
(* nothing inside the program, so a behaviour is one of a single component *)
(* and the others stay as they are.                                        *)
(***************************************************************************)
EXTENDS Lifecycle, Tarjan, CycleValidator, Annealing, CloudManagers, Vault, Deployment

VARIABLE component   \* the component that is used

controlVars == <<component, lifecycleVars, tarjanVars, validatorVars, annealingVars, cloudVars, vaultVars, deployVars>>

\* A component that is not used starts in one of its initial states only.
Init ==
    /\ component \in {"lifecycle", "tarjan", "validator", "annealing", "cloud", "vault", "deploy"}
    /\ LifecycleInit
    /\ TarjanInit /\ (component # "tarjan" => graph = [x \in Nodes |-> {}])
    /\ ValidatorInit /\ (component # "validator" => imports = [m \in Modules |-> {}])
    /\ AnnealingInit /\ (component # "annealing" => options = [parallel |-> FALSE, adaptive |-> FALSE])
    /\ CloudInit /\ VaultInit
    /\ DeployInit /\ (component # "deploy" => info)

Next ==
    /\ UNCHANGED component
    /\ \/ /\ component = "lifecycle" /\ LifecycleNext
          /\ UNCHANGED <<tarjanVars, validatorVars, annealingVars, cloudVars, vaultVars, deployVars>>
       \/ /\ component = "tarjan" /\ TarjanNext
          /\ UNCHANGED <<lifecycleVars, validatorVars, annealingVars, cloudVars, vaultVars, deployVars>>
       \/ /\ component = "validator" /\ ValidatorNext
          /\ UNCHANGED <<lifecycleVars, tarjanVars, annealingVars, cloudVars, vaultVars, deployVars>>
       \/ /\ component = "annealing" /\ AnnealingNext
          /\ UNCHANGED <<lifecycleVars, tarjanVars, validatorVars, cloudVars, vaultVars, deployVars>>
       \/ /\ component = "cloud" /\ CloudNext
          /\ UNCHANGED <<lifecycleVars, tarjanVars, validatorVars, annealingVars, vaultVars, deployVars>>
       \/ /\ component = "vault" /\ VaultNext
          /\ UNCHANGED <<lifecycleVars, tarjanVars, validatorVars, annealingVars, cloudVars, deployVars>>
       \/ /\ component = "deploy" /\ DeployNext
          /\ UNCHANGED <<lifecycleVars, tarjanVars, validatorVars, annealingVars, cloudVars, vaultVars>>

Spec == Init /\ [][Next]_controlVars
=============================================================================
